---- MODULE Spec2Model ----
(***************************************************************************)
(* Model of the PDF -> DOCX -> Excel converters and of the JGBF parser.    *)
(*                                                                         *)
(* Specifications:                                                         *)
(*   SpecSplit  the chunk-splitting loops of the three chunked converters  *)
(*   SpecNeg    JGBFParser.handle_negative_values                          *)
(*   SpecExcel  the copy of a document's tables to the sheets of a workbook *)
(*   Spec       one run of process_all_files of the parallel and of the    *)
(*              global-pool converter                                      *)
(*   SpecMerge  the merge of the sequential converter and its fallbacks    *)
(*   SpecJgbf   one run of the JGBF parser over its input files            *)
(*   SpecSheet  one table of a PDF page: captured subtitle, data sheet     *)
(*              written by the selective converter, sheet read by the      *)
(*              parser                                                     *)
(*   SpecFast   one run of process_all_files of the fast converter         *)
(*   SpecLive   Spec when every call of a chunk worker ends                *)
(*   SpecSeq    fixed_chunked_convert of the sequential converter for one  *)
(*              PDF                                                        *)
(*   SpecPages  the page pool of the selective converter, the merge of the *)
(*              page files and the subtitle of each data sheet             *)
(*   SpecParse  process_single_file over the sheets of a workbook the      *)
(*              selective converter wrote                                  *)
(***************************************************************************)
EXTENDS Integers, Sequences, FiniteSets, TLC

VARIABLES
    \* ---- SpecSplit: one run of a chunk-splitting loop
    split_conv,      \* which converter's loop ran: "none" before the run
    total_pages,     \* value returned by get_pdf_page_count
    chunk_size,      \* self.chunk_size, the integer typed at the prompt
    chunk_specs,     \* the chunk list the loop built
    split_raised,    \* TRUE when the loop raised instead of building a list
    \* ---- SpecNeg: one call of handle_negative_values
    neg_value,       \* the argument
    neg_result,      \* the returned string
    neg_pc,          \* "call" before the call, "done" after
    \* ---- SpecExcel: one DOCX document copied to a workbook
    xl_conv,         \* the converter: "parallel", "fast" or "title"
    xl_tables,       \* doc.tables: the document's tables, named by position
    xl_cores,        \* multiprocessing.cpu_count()
    xl_batches,      \* fast converter: the submitted batches [start, end)
    xl_done,         \* tables copied so far, per batch (one batch when sequential)
    xl_sheets,       \* wb: the sheets created so far, in creation order
    xl_pc,           \* "open", "tables", "saved" or "empty"
    \* ---- Spec: one run of process_all_files of a pool converter
    variant,         \* "parallel" (chunked_parallel.py) or "global" (global_pool_converter.py)
    user_chunk,      \* chunk_size given to the converter by main()
    user_workers,    \* max_workers given to the converter by main()
    tables_per_page, \* tables the conversion library finds on each page
    pc,              \* position of the main process
    pdf_i,           \* number of PDFs the loop over pdf_files has taken up
    pdf_info,        \* per PDF: its real page count and the counted total_pages
    jobs,            \* future_to_chunk: the submitted chunk jobs, in order
    chunk_results,   \* results appended in completion order
    raised_jobs,     \* jobs whose conversion raised inside the worker
    merge_order,     \* global pool: the keys of pdf_results, in insertion order
    merge_i,         \* global pool: PDFs of merge_order taken up by the merge loop
    last_merge,      \* the latest call of combine_chunks and what it returned
    pdf_status,      \* per PDF: how far its processing got
    docx_done,       \* the DOCX inputs have been given to convert_docx_to_excel
    mg_counts,       \* table count of each chunk file given to the merge
    mg_pc,           \* position in the sequential merge
    mg_primary,      \* how fixed_combine_chunks went
    mg_alternative,  \* how alternative_combine_chunks went
    mg_copy,         \* how the last-resort copy went
    mg_calls,        \* calls of alternative_combine_chunks so far
    mg_ret,          \* what the merge gave back to fixed_chunked_convert
    mg_output,       \* the file at output_path
    \* ---- SpecJgbf: one run of JGBFParser.process_all_files
    jg_pc,           \* "files" while the input files are read, then "done"
    jg_names,        \* stems of the input files processed so far
    all_data,        \* the data points extracted so far
    jg_out,           \* the JGBF_DATA sheet that was saved
    \* ---- SpecSheet: one table of one PDF page, from the page to the parser
    sheet_pc,        \* "scan", "skipped", "convert", "saved", "read" or "parsed"
    page_lines,      \* the lines of the page text
    table_rows,      \* the rows of the table found on the page
    subtitle_line,   \* relevant_pages[i]: the captured subtitle
    ws,              \* the data sheet written for the table
    sheet_data,      \* what read_excel_sheet returned for the sheet
    sheet_instrument, \* what extract_instrument_from_subtitle returned
    \* ---- SpecFast: one run of process_all_files of the fast converter
    fa_pc,           \* "pdf", "excel" or "done"
    fa_n,            \* len(pdf_files)
    fa_log,           \* per PDF taken up: what was attempted and what came back
    \* ---- SpecSeq: fixed_chunked_convert for one PDF, and what follows it
    sq_pc,           \* "chunks", "returned" or "done"
    sq_chunks,       \* the chunks of the loop over range(0, total_pages, chunk_size)
    sq_converted,    \* how each call of convert_pdf_chunk so far went
    sq_merged,       \* fixed_combine_chunks has been called
    sq_ret,          \* what fixed_chunked_convert returned
    sq_excel,         \* how convert_docx_to_excel went for the PDF
    \* ---- SpecPages: process_pdfs_selectively from the page pool on
    pg_pc,           \* "pool", "combine" or "done"
    pg_jobs,         \* the page jobs whose future has not completed
    pg_results,      \* page_results, in the order the futures completed
    pg_queue,        \* the keys of pdf_results still to be processed
    pg_workbooks,     \* for each PDF, the (origin, subtitle) of each data sheet
    \* ---- SpecParse: process_single_file over a workbook of the converter
    pa_pc,           \* "sheets" or "done"
    pa_sheetnames,   \* wb.sheetnames
    pa_filled,       \* index of the sheet that holds a data row
    pa_subtitle,     \* the subtitle cell of that sheet
    pa_row,          \* its data row
    pa_types,        \* the table type given to each sheet name so far
    pa_results,      \* all_results
    pa_out           \* the JGBF_DATA sheet made of all_results

splitVars == <<split_conv, total_pages, chunk_size, chunk_specs, split_raised>>
negVars == <<neg_value, neg_result, neg_pc>>
xlVars == <<xl_conv, xl_tables, xl_cores, xl_batches, xl_done, xl_sheets, xl_pc>>
poolVars == <<variant, user_chunk, user_workers, tables_per_page, pc, pdf_i,
              pdf_info, jobs, chunk_results, raised_jobs, merge_order, merge_i,
              last_merge, pdf_status, docx_done>>
mergeVars == <<mg_counts, mg_pc, mg_primary, mg_alternative, mg_copy, mg_calls, mg_ret,
               mg_output>>
jgbfVars == <<jg_pc, jg_names, all_data, jg_out>>
fastVars == <<fa_pc, fa_n, fa_log>>
seqVars == <<sq_pc, sq_chunks, sq_converted, sq_merged, sq_ret, sq_excel>>
pageVars == <<pg_pc, pg_jobs, pg_results, pg_queue, pg_workbooks>>
parseVars == <<pa_pc, pa_sheetnames, pa_filled, pa_subtitle, pa_row, pa_types,
              pa_results, pa_out>>
sheetVars == <<sheet_pc, page_lines, table_rows, subtitle_line, ws, sheet_data,
               sheet_instrument>>
vars == <<splitVars, negVars, xlVars, poolVars, mergeVars,
          jgbfVars, sheetVars, fastVars, seqVars, pageVars, parseVars>>

(***************************************************************************)
(* Bounds                                                                  *)
(***************************************************************************)
MaxPages == 7        \* page counts 0..MaxPages (and AssumedPages) are split
MaxChunkSize == 4    \* chunk sizes -MaxChunkSize..MaxChunkSize are typed
MaxLen == 3          \* longest cell value given to handle_negative_values
MaxTables == 8       \* a document copied to Excel holds 0..MaxTables tables
MaxCores == 2        \* cpu_count() is at most MaxCores
MaxPdfPages == 2     \* an input PDF holds 0..MaxPdfPages pages
MaxJobs == 3         \* runs submitting more chunk jobs to one pool are left out
MaxTablesPerPage == 1 \* each page holds 0..MaxTablesPerPage tables
MaxSkipped == 1      \* element copies that may fail during one merge
MaxMergeChunks == 2  \* chunk files given to the sequential merge
MaxChunkTables == 2  \* tables in one of these chunk files
MaxFiles == 2
MaxRows == 2
MaxFastPdfs == 3        \* input files of one run of the JGBF parser
MaxSelPages == 2        \* relevant pages of one PDF
MaxPageTables == 2      \* tables in one page file
MaxPageJobs == 2        \* page jobs submitted to the page pool
MaxParseTables == 5     \* tables of the document behind a parsed workbook

\* get_pdf_page_count's answer when the page count cannot be read
AssumedPages == 24

Min(a, b) == IF a < b THEN a ELSE b

(***************************************************************************)
(* Chunk splitting                                                         *)
(***************************************************************************)
\* list(range(start, stop, step)) for step # 0
RECURSIVE Range(_, _, _)
Range(start, stop, step) ==
    IF (step > 0 /\ start < stop) \/ (step < 0 /\ start > stop)
    THEN <<start>> \o Range(start + step, stop, step)
    ELSE <<>>

\* Python's floor division
FloorDiv(a, b) == IF b > 0 THEN a \div b ELSE (0 - a) \div (0 - b)

\* chunk numbering of chunked_parallel.py and chunked_pdf_converter.py
NumberByStart(chunk_start, size) == FloorDiv(chunk_start, size) + 1

\* chunk numbering of global_pool_converter.py: the running chunk_count at
\* the i-th iteration
NumberByCount(i) == i

\* the end of the chunk starting at chunk_start
ChunkEndMutant(chunk_start, size, total) == chunk_start + size
ChunkEnd(chunk_start, size, total) == Min(chunk_start + size, total)

\* the loop "for chunk_start in range(0, total_pages, chunk_size)": range()
\* raises ValueError for a zero step
SplitLoop(total, size, by_count) ==
    IF size = 0 THEN [raised |-> TRUE, chunks |-> <<>>]
    ELSE LET starts == Range(0, total, size)
         IN  [raised |-> FALSE,
              chunks |-> [i \in 1..Len(starts) |->
                            [start_page |-> starts[i],
                             end_page |-> ChunkEnd(starts[i], size, total),
                             chunk_number |-> IF by_count THEN NumberByCount(i)
                                              ELSE NumberByStart(starts[i], size)]]]

ParallelChunkSpecs(total, size) == SplitLoop(total, size, FALSE)
GlobalChunkJobs(total, size) == SplitLoop(total, size, TRUE)
SequentialChunks(total, size) == SplitLoop(total, size, FALSE)

PageCounts == (0..MaxPages) \cup {AssumedPages}
ChunkSizes == (0 - MaxChunkSize)..MaxChunkSize

SplitIdle ==
    /\ split_conv = "none" /\ total_pages = 0 /\ chunk_size = 1
    /\ chunk_specs = <<>> /\ split_raised = FALSE

SplitInit ==
    /\ split_conv = "none"
    /\ total_pages \in PageCounts
    /\ chunk_size \in ChunkSizes
    /\ chunk_specs = <<>>
    /\ split_raised = FALSE

ParallelSplit ==
    /\ split_conv = "none"
    /\ split_conv' = "parallel"
    /\ chunk_specs' = ParallelChunkSpecs(total_pages, chunk_size).chunks
    /\ split_raised' = ParallelChunkSpecs(total_pages, chunk_size).raised
    /\ UNCHANGED <<total_pages, chunk_size>>

GlobalSplit ==
    /\ split_conv = "none"
    /\ split_conv' = "global"
    /\ chunk_specs' = GlobalChunkJobs(total_pages, chunk_size).chunks
    /\ split_raised' = GlobalChunkJobs(total_pages, chunk_size).raised
    /\ UNCHANGED <<total_pages, chunk_size>>

SequentialSplit ==
    /\ split_conv = "none"
    /\ split_conv' = "sequential"
    /\ chunk_specs' = SequentialChunks(total_pages, chunk_size).chunks
    /\ split_raised' = SequentialChunks(total_pages, chunk_size).raised
    /\ UNCHANGED <<total_pages, chunk_size>>

(***************************************************************************)
(* handle_negative_values                                                  *)
(***************************************************************************)
\* A cell value is a sequence of characters
Marker == "▲"
Alphabet == {Marker, "-", " ", "7"}

RECURSIVE Values(_)
Values(n) ==
    IF n = 0 THEN {<<>>}
    ELSE LET shorter == Values(n - 1)
         IN  shorter \cup {Append(v, c) : v \in shorter, c \in Alphabet}

\* str.strip()
RECURSIVE LStrip(_)
LStrip(s) == IF s # <<>> /\ Head(s) = " " THEN LStrip(Tail(s)) ELSE s

RECURSIVE RStrip(_)
RStrip(s) ==
    IF s # <<>> /\ s[Len(s)] = " " THEN RStrip(SubSeq(s, 1, Len(s) - 1)) ELSE s

Strip(s) == RStrip(LStrip(s))

handle_negative_valuesMutant(value) ==
    IF value = <<>> \/ value = <<"-">> THEN <<>>
    ELSE LET value_str == Strip(value)
         IN  IF value_str # <<>> /\ Head(value_str) = Marker
             THEN Tail(value_str)
             ELSE value_str

handle_negative_values(value) ==
    IF value = <<>> \/ value = <<"-">> THEN <<>>
    ELSE LET value_str == Strip(value)
         IN  IF value_str # <<>> /\ Head(value_str) = Marker
             THEN <<"-">> \o Tail(value_str)
             ELSE value_str

NegIdle == neg_value = <<>> /\ neg_result = <<>> /\ neg_pc = "idle"

NegInit ==
    /\ neg_value \in Values(MaxLen)
    /\ neg_result = <<>>
    /\ neg_pc = "call"

HandleNegativeValues ==
    /\ neg_pc = "call"
    /\ neg_result' = handle_negative_values(neg_value)
    /\ neg_pc' = "done"
    /\ UNCHANGED neg_value

(***************************************************************************)
(* Tables of a document copied to Excel sheets                             *)
(***************************************************************************)
table_names == <<"Table1_Main_Summary", "Table2_Brokerage_Breakdown",
                 "Table3_Institutions_Breakdown", "Table4_Financial_Breakdown">>

TablesPerPage == 4     \* "4 per page": the divisor of page and position
SheetNameLen == 20     \* table_name[:20]
ThreadCap == 8         \* ThreadPoolExecutor(max_workers=min(cpu_cores, 8))
SummaryTable == 0 - 1  \* the Summary sheet holds no table of the document

Max(a, b) == IF a > b THEN a ELSE b

\* (table_index // 4) + 1
PageNumberMutant(table_index) == table_index \div TablesPerPage
PageNumber(table_index) == (table_index \div TablesPerPage) + 1

\* self.table_names[table_index % 4]
TableName(table_index) == table_names[(table_index % TablesPerPage) + 1]

\* f"P{page_number}_{table_name[:20]}"
SheetName(page_number, table_name) ==
    "P" \o ToString(page_number) \o "_"
        \o SubSeq(table_name, 1, Min(SheetNameLen, Len(table_name)))

\* wb.create_sheet(title=sheet_name) and copy_table_to_sheet for one table
SheetFor(table, table_index) ==
    [title |-> SheetName(PageNumber(table_index), TableName(table_index)),
     page_number |-> PageNumber(table_index),
     table_name |-> TableName(table_index),
     table |-> table]

\* create_summary_sheet
SummarySheet ==
    [title |-> "Summary", page_number |-> 0, table_name |-> "Summary",
     table |-> SummaryTable]

\* fast converter: batch_size = max(1, total_tables // cpu_cores) and the
\* batches range(0, total_tables, batch_size)
BatchSize(total_tables, cores) == Max(1, total_tables \div cores)

Batches(total_tables, cores) ==
    LET starts == Range(0, total_tables, BatchSize(total_tables, cores))
    IN  [b \in 1..Len(starts) |->
            [start_index |-> starts[b],
             batch_end |-> Min(starts[b] + BatchSize(total_tables, cores),
                               total_tables)]]

\* batch_tables = doc.tables[i:batch_end]
BatchTables(tables, batch) ==
    SubSeq(tables, batch.start_index + 1, batch.batch_end)

XlIdle ==
    /\ xl_conv = "none" /\ xl_tables = <<>> /\ xl_cores = 1
    /\ xl_batches = <<>> /\ xl_done = <<>> /\ xl_sheets = <<>> /\ xl_pc = "idle"

XlInit ==
    /\ xl_conv \in {"parallel", "fast", "title"}
    /\ xl_tables \in {[k \in 1..n |-> k - 1] : n \in 0..MaxTables}
    /\ xl_cores \in 1..MaxCores
    /\ xl_batches = <<>>
    /\ xl_done = <<>>
    /\ xl_sheets = <<>>
    /\ xl_pc = "open"

\* the head of convert_docx_to_excel / fast_convert_docx_to_excel: return when
\* the document holds no table, else create the workbook and its summary
\* sheet (and, in the fast converter, submit the batches)
OpenWorkbook ==
    /\ xl_pc = "open"
    /\ IF Len(xl_tables) = 0
       THEN /\ xl_pc' = "empty"
            /\ UNCHANGED <<xl_batches, xl_done, xl_sheets>>
       ELSE /\ xl_pc' = "tables"
            /\ xl_sheets' = <<SummarySheet>>
            /\ xl_batches' =
                  IF xl_conv = "fast" THEN Batches(Len(xl_tables), xl_cores)
                  ELSE <<[start_index |-> 0, batch_end |-> Len(xl_tables)]>>
            /\ xl_done' =
                  IF xl_conv = "fast"
                  THEN [b \in 1..Len(Batches(Len(xl_tables), xl_cores)) |-> 0]
                  ELSE <<0>>
    /\ UNCHANGED <<xl_conv, xl_tables, xl_cores>>

\* one iteration of "for table_index, table in enumerate(doc.tables)" of
\* ParallelChunkedConverter.convert_docx_to_excel (the global-pool and the
\* sequential converter hold the same loop)
ConvertTable ==
    /\ xl_pc = "tables" /\ xl_conv = "parallel"
    /\ xl_done[1] < Len(xl_tables)
    /\ LET table_index == xl_done[1]
       IN  xl_sheets' = Append(xl_sheets, SheetFor(xl_tables[table_index + 1], table_index))
    /\ xl_done' = <<xl_done[1] + 1>>
    /\ UNCHANGED <<xl_conv, xl_tables, xl_cores, xl_batches, xl_pc>>

\* one iteration of "for i, table in enumerate(doc.tables)" of
\* TitleEnhancedConverter.convert_docx_to_excel
ConvertTitledTable ==
    /\ xl_pc = "tables" /\ xl_conv = "title"
    /\ xl_done[1] < Len(xl_tables)
    /\ LET i == xl_done[1]
       IN  xl_sheets' = Append(xl_sheets, SheetFor(xl_tables[i + 1], i))
    /\ xl_done' = <<xl_done[1] + 1>>
    /\ UNCHANGED <<xl_conv, xl_tables, xl_cores, xl_batches, xl_pc>>

\* batches the thread pool is running: begun and not finished
BatchLen(b) == xl_batches[b].batch_end - xl_batches[b].start_index
Running == {b \in DOMAIN xl_batches : 0 < xl_done[b] /\ xl_done[b] < BatchLen(b)}

\* the objects the pool thread of batch b writes: the Workbook handed to every
\* submitted batch (wb.create_sheet) and the worksheets the thread creates
BatchWrites(b) ==
    {<<"wb", 0>>}
        \cup {<<"ws", table_index>> :
                 table_index \in xl_batches[b].start_index..(xl_batches[b].batch_end - 1)}

\* one iteration of process_table_batch's loop in the pool thread of batch b;
\* the pool starts batches in submission order, min(cpu_cores, 8) at a time
ProcessTableBatch(b) ==
    /\ xl_pc = "tables" /\ xl_conv = "fast"
    /\ xl_done[b] < BatchLen(b)
    /\ \/ xl_done[b] > 0
       \/ /\ \A a \in 1..(b - 1) : xl_done[a] > 0
          /\ Cardinality(Running) < Min(xl_cores, ThreadCap)
    /\ LET i == xl_done[b]
           tables == BatchTables(xl_tables, xl_batches[b])
           table_index == xl_batches[b].start_index + i
       IN  xl_sheets' = Append(xl_sheets, SheetFor(tables[i + 1], table_index))
    /\ xl_done' = [xl_done EXCEPT ![b] = @ + 1]
    /\ UNCHANGED <<xl_conv, xl_tables, xl_cores, xl_batches, xl_pc>>

\* wb.save(excel_path), once every table has been copied
SaveWorkbook ==
    /\ xl_pc = "tables"
    /\ \A b \in DOMAIN xl_batches : xl_done[b] = BatchLen(b)
    /\ xl_pc' = "saved"
    /\ UNCHANGED <<xl_conv, xl_tables, xl_cores, xl_batches, xl_done, xl_sheets>>

(***************************************************************************)
(* The pool converters: chunked_parallel.py and global_pool_converter.py   *)
(*                                                                         *)
(* Faults taken into account: the page count cannot be read (24 pages are  *)
(* assumed), a chunk conversion raises inside its worker, a future raises  *)
(* when its result is fetched, combine_chunks raises in its primary merge  *)
(* and in its fallback copy, single element copies fail and are skipped,   *)
(* the Excel extraction raises, range() and ProcessPoolExecutor reject the *)
(* numbers typed at the prompts.  A pool process that dies is not          *)
(* modelled: every future yields the dictionary its worker returned.  The  *)
(* output folders are empty at start.                                      *)
(***************************************************************************)
PdfFiles == <<"report_a", "report_b">>   \* input_folder.glob("*.pdf")
Pdfs == 1..Len(PdfFiles)

WorkerCap == 4     \* min(multiprocessing.cpu_count(), 4)

PoolChunkSizes == {0 - 1, 0, 1, AssumedPages \div 2}
PoolWorkerCounts == {0 - 1, 0, 1, 2}

\* self.chunk_size
ChunkSizeOf == user_chunk

\* self.max_workers: chunked_parallel.py replaces a zero by its default
MaxWorkers ==
    IF variant = "parallel" /\ user_workers = 0
    THEN Min(MaxCores, WorkerCap)
    ELSE user_workers

\* the tables of page `page` of PDF f, as the conversion library yields them
PageTables(f, page) == [k \in 1..tables_per_page |-> <<f, page, k>>]

RECURSIVE PagesTables(_, _, _)
PagesTables(f, from, to) ==
    IF from >= to THEN <<>>
    ELSE PageTables(f, from) \o PagesTables(f, from + 1, to)

\* Document(chunk_docx_path).tables after cv.convert(start=, end=): the tables
\* of the pages of [start_page, end_page) that the PDF really has
ChunkDoc(job) ==
    PagesTables(job.pdf, job.start_page,
                Min(job.end_page, pdf_info[job.pdf].actual))

\* chunk_folder / f"{pdf_name}_chunk_{chunk_number}.docx"; <<>> is None
ChunkPath(job) == <<job.pdf, job.chunk_number>>
NoPath == <<>>

ChunkOutcomes == {"ok", "raised"}

\* success flag of the dictionary a worker returns
WorkerSuccessMutant(outcome) == TRUE
WorkerSuccess(outcome) == outcome = "ok"

\* the dictionary convert_pdf_chunk_worker / convert_chunk_worker returns for
\* job j; its try/except turns an exception of the conversion into a failure
ChunkResult(j, outcome) ==
    LET job == jobs[j]
    IN  [job |-> j, pdf |-> job.pdf, chunk_number |-> job.chunk_number,
         success |-> WorkerSuccess(outcome),
         table_count |-> IF outcome = "ok" THEN Len(ChunkDoc(job)) ELSE 0,
         chunk_path |-> IF outcome = "ok" THEN ChunkPath(job) ELSE NoPath]

\* jobs whose future has been collected
Collected == {chunk_results[k].job : k \in DOMAIN chunk_results}

\* a pool whose processes take no further job after their first
RunningJobsMutant == {j \in DOMAIN jobs \ Collected : j <= MaxWorkers}

\* jobs a pool process is working on: the pool takes the jobs in submission
\* order, max_workers at a time
RunningJobs ==
    {j \in DOMAIN jobs \ Collected :
        Cardinality({i \in DOMAIN jobs \ Collected : i < j}) < MaxWorkers}

\* the loop over as_completed(future_to_chunk) has ended
AllCollectedFirstResult == chunk_results # <<>>

AllCollectedMutant ==
    \/ Collected = DOMAIN jobs
    \/ \E k \in DOMAIN chunk_results : ~chunk_results[k].success
AllCollected == Collected = DOMAIN jobs

\* list.sort(key=lambda x: x['chunk_number']): a stable sort
RECURSIVE InsertByChunkNumber(_, _)
InsertByChunkNumber(r, sorted) ==
    IF sorted = <<>> THEN <<r>>
    ELSE IF Head(sorted).chunk_number <= r.chunk_number
         THEN <<Head(sorted)>> \o InsertByChunkNumber(r, Tail(sorted))
         ELSE <<r>> \o sorted

RECURSIVE SortByChunkNumber(_)
SortByChunkNumber(results) ==
    IF results = <<>> THEN <<>>
    ELSE InsertByChunkNumber(results[Len(results)],
                             SortByChunkNumber(SubSeq(results, 1, Len(results) - 1)))

IsSuccess(r) == r.success

\* CompletePdfToExcelConverter.convert_pdf_to_docx: cv.convert(start=0,
\* end=None), the conversion of the whole PDF f in one call
ConvertWhole(f) == PagesTables(f, 0, pdf_info[f].actual)

\* successful_chunks of parallel_chunked_convert, after its sort
SuccessfulChunksMutant(results) == SelectSeq(results, IsSuccess)
SuccessfulChunks(results) == SortByChunkNumber(SelectSeq(results, IsSuccess))

\* pdf_results of process_pdfs_with_global_pool: its keys in insertion order
RECURSIVE PdfResultKeys(_)
PdfResultKeys(results) ==
    IF results = <<>> THEN <<>>
    ELSE LET before == PdfResultKeys(SubSeq(results, 1, Len(results) - 1))
             r == results[Len(results)]
         IN  IF r.success /\ ~(\E k \in DOMAIN before : before[k] = r.pdf)
             THEN Append(before, r.pdf)
             ELSE before

PdfResultsMutant(f, results) ==
    LET Successful(r) == r.success
    IN  SortByChunkNumber(SelectSeq(results, Successful))

\* pdf_results[pdf_name] after results.sort(...)
PdfResults(f, results) ==
    LET OfPdf(r) == r.success /\ r.pdf = f
    IN  SortByChunkNumber(SelectSeq(results, OfPdf))

\* chunk_paths = [result['chunk_path'] for result in ...]
ChunkPaths(results) == [k \in DOMAIN results |-> results[k].chunk_path]

\* the documents behind a list of successful results
ChunkDocs(results) == [k \in DOMAIN results |-> ChunkDoc(jobs[results[k].job])]

RECURSIVE Concat(_)
Concat(docs) == IF docs = <<>> THEN <<>> ELSE Head(docs) \o Concat(Tail(docs))

\* the elements of seq whose copy did not fail
RECURSIVE Keep(_, _, _)
Keep(seq, skip, i) ==
    IF i > Len(seq) THEN <<>>
    ELSE (IF i \in skip THEN <<>> ELSE <<seq[i]>>) \o Keep(seq, skip, i + 1)

SkipSets(n) == {S \in SUBSET (1..n) : Cardinality(S) <= MaxSkipped}

\* the primary merge of combine_chunks: the first chunk's file, then a copy of
\* every element of each further chunk ("except: pass" skips a failed copy)
PrimaryMergeMutant(docs, skip) == Concat(Tail(docs))
PrimaryMerge(docs, skip) == Head(docs) \o Keep(Concat(Tail(docs)), skip, 1)

\* combine_chunks(chunk_paths, output_path): what it returns and the tables of
\* the file it leaves at output_path.  raise = "primary": the merge raised and
\* the fallback copied the first chunk; raise = "both": that copy raised too
CombineChunksMutant(docs, raise, skip) ==
    IF docs = <<>> \/ raise = "primary"
    THEN [ret |-> "none", via |-> "empty", doc |-> <<>>]
    ELSE IF raise = "none"
    THEN [ret |-> "path", via |-> "primary", doc |-> PrimaryMerge(docs, skip)]
    ELSE [ret |-> "raised", via |-> "fallback", doc |-> <<>>]
CombineChunks(docs, raise, skip) ==
    IF docs = <<>>
    THEN [ret |-> "none", via |-> "empty", doc |-> <<>>]
    ELSE IF raise = "none"
    THEN [ret |-> "path", via |-> "primary", doc |-> PrimaryMerge(docs, skip)]
    ELSE IF raise = "primary"
    THEN [ret |-> "path", via |-> "fallback", doc |-> Head(docs)]
    ELSE [ret |-> "raised", via |-> "fallback", doc |-> <<>>]

\* docx_path = self.docx_folder / f"{pdf_name}.docx"
DocxPath(f) == <<"converted_docx", f>>

\* what the caller of combine_chunks gets from a call for PDF f: the value
\* returned (the output path or None) or the exception; combine_chunks sets
\* no attribute of the converter
CallerView(f, out) ==
    [returned |-> IF out.ret = "path" THEN DocxPath(f) ELSE NoPath,
     raised |-> out.ret = "raised"]

NoMerge ==
    [called |-> FALSE, pdf |-> 0, chunk_paths |-> <<>>, ret |-> "none",
     via |-> "empty", doc |-> <<>>, skipped |-> 0]

MergeCall(f, results, raise, skip) ==
    LET out == CombineChunks(ChunkDocs(results), raise, skip)
    IN  [called |-> TRUE, pdf |-> f, chunk_paths |-> ChunkPaths(results),
         ret |-> out.ret, via |-> out.via, doc |-> out.doc,
         skipped |-> Cardinality(skip)]

\* the choices of one combine_chunks call on these results
MergeChoices(results) ==
    LET docs == ChunkDocs(results)
    IN  {<<"none", S>> : S \in SkipSets(Len(Concat(Tail(docs))))}
            \cup {<<"primary", {}>>, <<"both", {}>>}

\* convert_docx_to_excel on a document: it returns early when the document
\* holds no table, logs and returns when anything raises
ExcelStatus(doc, outcome) ==
    IF outcome = "failed" THEN "excel_failed"
    ELSE IF Len(doc) = 0 THEN "no_tables"
    ELSE "excel_saved"

ExcelOutcomes == {"ok", "failed"}

PoolIdle ==
    /\ variant = "none" /\ user_chunk = 1 /\ user_workers = 1
    /\ tables_per_page = 0 /\ pc = "idle" /\ pdf_i = 0
    /\ pdf_info = <<>> /\ jobs = <<>> /\ chunk_results = <<>>
    /\ raised_jobs = {} /\ merge_order = <<>> /\ merge_i = 0
    /\ last_merge = NoMerge /\ pdf_status = <<>> /\ docx_done = FALSE

\* main() has read the prompts and built the converter; process_all_files
\* has listed the input folder
PoolInit ==
    /\ variant \in {"parallel", "global"}
    /\ user_chunk \in PoolChunkSizes
    /\ user_workers \in PoolWorkerCounts
    /\ tables_per_page \in 0..MaxTablesPerPage
    /\ pc = IF variant = "parallel" THEN "pdf" ELSE "count"
    /\ pdf_i = 0
    /\ pdf_info = [f \in Pdfs |-> [actual |-> 0, total_pages |-> 0]]
    /\ jobs = <<>>
    /\ chunk_results = <<>>
    /\ raised_jobs = {}
    /\ merge_order = <<>>
    /\ merge_i = 0
    /\ last_merge = NoMerge
    /\ pdf_status = [f \in Pdfs |-> "pending"]
    /\ docx_done = FALSE

\* get_pdf_page_count: the real page count, or 24 when it cannot be read
CountedPages(actual, counted) == IF counted THEN actual ELSE AssumedPages

JobsOf(f, chunks) ==
    [k \in DOMAIN chunks |->
        [pdf |-> f, start_page |-> chunks[k].start_page,
         end_page |-> chunks[k].end_page,
         chunk_number |-> chunks[k].chunk_number]]

\* parallel_chunked_convert up to the submission of the chunk jobs; a
\* ValueError of range() or of ProcessPoolExecutor is caught by its
\* try/except and makes it return None
ParallelChunkedConvert ==
    /\ variant = "parallel" /\ pc = "pdf" /\ pdf_i < Len(PdfFiles)
    /\ LET f == pdf_i + 1
       IN  \E actual \in 0..MaxPdfPages, counted \in BOOLEAN :
             LET total == CountedPages(actual, counted)
                 split == ParallelChunkSpecs(total, ChunkSizeOf)
             IN  /\ Len(split.chunks) <= MaxJobs
                 /\ pdf_i' = f
                 /\ pdf_info' = [pdf_info EXCEPT ![f] =
                                   [actual |-> actual, total_pages |-> total]]
                 /\ chunk_results' = <<>>
                 /\ raised_jobs' = {}
                 /\ last_merge' = NoMerge
                 /\ IF split.raised \/ MaxWorkers <= 0
                    THEN /\ jobs' = <<>>
                         /\ pdf_status' = [pdf_status EXCEPT ![f] = "convert_failed"]
                         /\ pc' = "pdf"
                    ELSE /\ jobs' = JobsOf(f, split.chunks)
                         /\ pdf_status' = pdf_status
                         /\ pc' = "pool"
    /\ UNCHANGED <<variant, user_chunk, user_workers, tables_per_page,
                   merge_order, merge_i, docx_done>>

\* one iteration of the first loop of process_pdfs_with_global_pool: count the
\* pages and append the chunk jobs; a ValueError of range() is not caught
GlobalCreateChunks ==
    /\ variant = "global" /\ pc = "count" /\ pdf_i < Len(PdfFiles)
    /\ LET f == pdf_i + 1
       IN  \E actual \in 0..MaxPdfPages, counted \in BOOLEAN :
             LET total == CountedPages(actual, counted)
                 split == GlobalChunkJobs(total, ChunkSizeOf)
             IN  /\ Len(jobs) + Len(split.chunks) <= MaxJobs
                 /\ pdf_i' = f
                 /\ pdf_info' = [pdf_info EXCEPT ![f] =
                                   [actual |-> actual, total_pages |-> total]]
                 /\ IF split.raised
                    THEN /\ jobs' = jobs
                         /\ pc' = "crashed"
                    ELSE /\ jobs' = jobs \o JobsOf(f, split.chunks)
                         /\ pc' = "count"
    /\ UNCHANGED <<variant, user_chunk, user_workers, tables_per_page,
                   chunk_results, raised_jobs, merge_order, merge_i,
                   last_merge, pdf_status, docx_done>>

\* ProcessPoolExecutor(max_workers=...) and the submission of every job of the
\* global pool; a ValueError of ProcessPoolExecutor is not caught
GlobalSubmit ==
    /\ variant = "global" /\ pc = "count" /\ pdf_i = Len(PdfFiles)
    /\ pc' = IF MaxWorkers <= 0 THEN "crashed" ELSE "pool"
    /\ UNCHANGED <<variant, user_chunk, user_workers, tables_per_page, pdf_i,
                   pdf_info, jobs, chunk_results, raised_jobs, merge_order,
                   merge_i, last_merge, pdf_status, docx_done>>

\* a running job ends and as_completed hands its future to the collecting
\* loop, which appends one result for it
CompleteChunk(j) ==
    /\ pc = "pool"
    /\ ~AllCollected
    /\ j \in RunningJobs
    /\ \E outcome \in ChunkOutcomes :
         /\ chunk_results' = Append(chunk_results, ChunkResult(j, outcome))
         /\ raised_jobs' = IF outcome = "ok" THEN raised_jobs
                           ELSE raised_jobs \cup {j}
    /\ UNCHANGED <<variant, user_chunk, user_workers, tables_per_page, pc,
                   pdf_i, pdf_info, jobs, merge_order, merge_i, last_merge,
                   pdf_status, docx_done>>

\* parallel_chunked_convert after the pool: filter, sort, combine_chunks
ParallelCombine ==
    /\ variant = "parallel" /\ pc = "pool" /\ AllCollected
    /\ LET f == pdf_i
           successful_chunks == SuccessfulChunks(chunk_results)
       IN  IF successful_chunks = <<>>
           THEN /\ pdf_status' = [pdf_status EXCEPT ![f] = "no_chunks"]
                /\ pc' = "pdf"
                /\ last_merge' = last_merge
           ELSE \E choice \in MergeChoices(successful_chunks) :
                  LET call == MergeCall(f, successful_chunks, choice[1], choice[2])
                  IN  /\ last_merge' = call
                      /\ IF call.ret = "path"
                         THEN /\ pdf_status' = [pdf_status EXCEPT ![f] = "merged"]
                              /\ pc' = "excel"
                         ELSE /\ pdf_status' = [pdf_status EXCEPT ![f] = "merge_failed"]
                              /\ pc' = "pdf"
    /\ UNCHANGED <<variant, user_chunk, user_workers, tables_per_page, pdf_i,
                   pdf_info, jobs, chunk_results, raised_jobs, merge_order,
                   merge_i, docx_done>>

\* process_all_files of chunked_parallel.py: convert_docx_to_excel(docx_path)
ParallelExtract ==
    /\ variant = "parallel" /\ pc = "excel"
    /\ \E outcome \in ExcelOutcomes :
         pdf_status' = [pdf_status EXCEPT ![pdf_i] = ExcelStatus(last_merge.doc, outcome)]
    /\ pc' = "pdf"
    /\ UNCHANGED <<variant, user_chunk, user_workers, tables_per_page, pdf_i,
                   pdf_info, jobs, chunk_results, raised_jobs, merge_order,
                   merge_i, last_merge, docx_done>>

\* the grouping loop of process_pdfs_with_global_pool
GlobalGroup ==
    /\ variant = "global" /\ pc = "pool" /\ AllCollected
    /\ merge_order' = PdfResultKeys(chunk_results)
    /\ merge_i' = 0
    /\ pdf_status' = [f \in Pdfs |->
                        IF \E k \in DOMAIN chunk_results :
                              chunk_results[k].success /\ chunk_results[k].pdf = f
                        THEN "pending" ELSE "no_chunks"]
    /\ pc' = "merge"
    /\ UNCHANGED <<variant, user_chunk, user_workers, tables_per_page, pdf_i,
                   pdf_info, jobs, chunk_results, raised_jobs, last_merge,
                   docx_done>>

\* one iteration of "for pdf_name, results in pdf_results.items()" up to
\* combine_chunks; an exception leaving combine_chunks is not caught
GlobalCombine ==
    /\ variant = "global" /\ pc = "merge" /\ merge_i < Len(merge_order)
    /\ LET f == merge_order[merge_i + 1]
           results == PdfResults(f, chunk_results)
       IN  \E choice \in MergeChoices(results) :
             LET call == MergeCall(f, results, choice[1], choice[2])
             IN  /\ last_merge' = call
                 /\ merge_i' = merge_i + 1
                 /\ IF call.ret = "path"
                    THEN /\ pdf_status' = [pdf_status EXCEPT ![f] = "merged"]
                         /\ pc' = "excel"
                    ELSE /\ pdf_status' = [pdf_status EXCEPT ![f] = "merge_failed"]
                         /\ pc' = "crashed"
    /\ UNCHANGED <<variant, user_chunk, user_workers, tables_per_page, pdf_i,
                   pdf_info, jobs, chunk_results, raised_jobs, merge_order,
                   docx_done>>

\* the rest of that iteration: convert_docx_to_excel(final_docx), then
\* Document(str(final_docx)) outside any try; a merged file that cannot be
\* read fails the extraction and then raises here
GlobalExtract ==
    /\ variant = "global" /\ pc = "excel"
    /\ \E outcome \in ExcelOutcomes, readable \in BOOLEAN :
         /\ outcome = "ok" => readable
         /\ pdf_status' = [pdf_status EXCEPT ![last_merge.pdf] =
                              ExcelStatus(last_merge.doc, outcome)]
         /\ pc' = IF readable THEN "merge" ELSE "crashed"
    /\ UNCHANGED <<variant, user_chunk, user_workers, tables_per_page, pdf_i,
                   pdf_info, jobs, chunk_results, raised_jobs, merge_order,
                   merge_i, last_merge, docx_done>>

\* the loops over the PDFs have ended
PdfsDone ==
    \/ variant = "parallel" /\ pc = "pdf" /\ pdf_i = Len(PdfFiles)
    \/ variant = "global" /\ pc = "merge" /\ merge_i = Len(merge_order)

\* the rest of process_all_files: convert_docx_to_excel for every DOCX file
\* of the input folder (it catches what it raises), then cleanup_temp_files
ProcessDocxFiles ==
    /\ PdfsDone
    /\ docx_done' = TRUE
    /\ pc' = "done"
    /\ UNCHANGED <<variant, user_chunk, user_workers, tables_per_page, pdf_i,
                   pdf_info, jobs, chunk_results, raised_jobs, merge_order,
                   merge_i, last_merge, pdf_status>>

(***************************************************************************)
(* The merge of the sequential converter (chunked_pdf_converter.py):       *)
(* fixed_combine_chunks, alternative_combine_chunks and the last-resort    *)
(* copy.  Any file operation may raise.                                    *)
(***************************************************************************)
\* the tables of the c-th chunk file, which holds n tables
ChunkTables(c, n) ==
    [k \in 1..n |-> [chunk |-> c, index |-> k, recreated |-> FALSE]]

\* the documents behind chunk_paths, given the table count of each
ChunkFiles(counts) == [c \in DOMAIN counts |-> ChunkTables(c, counts[c])]

\* combined_doc.add_table(...) and the copy of the cell texts
Recreate(tables) ==
    [k \in DOMAIN tables |-> [tables[k] EXCEPT !.recreated = TRUE]]

RECURSIVE CountLists(_)
CountLists(n) ==
    IF n = 0 THEN {<<>>}
    ELSE CountLists(n - 1)
            \cup {Append(s, t) : s \in {x \in CountLists(n - 1) : Len(x) = n - 1},
                                 t \in 0..MaxChunkTables}

NoFile == [exists |-> FALSE, tables |-> <<>>]
File(tables) == [exists |-> TRUE, tables |-> tables]

\* whether fixed_combine_chunks gives up its own result: "except Exception"
\* or final_table_count != total_tables_added
PrimaryFailedMutant(raised, final_table_count, total_tables_added) == raised
PrimaryFailed(raised, final_table_count, total_tables_added) ==
    raised \/ final_table_count # total_tables_added

\* total_tables_added after the loop over the chunks: the sum of
\* len(chunk_doc.tables), whatever import_element returned
TotalTablesAddedMutant(counts) == IF counts = <<>> THEN 0 ELSE counts[1]
RECURSIVE TotalTablesAdded(_)
TotalTablesAdded(counts) ==
    IF counts = <<>> THEN 0
    ELSE TotalTablesAdded(SubSeq(counts, 1, Len(counts) - 1)) + counts[Len(counts)]

PrimaryOutcomes == {"ok", "raise_before_save", "raise_after_save"}
AlternativeOutcomes == {"ok", "raise_at_copy", "raise_after_copy", "raise_after_save"}

MergeIdle ==
    /\ mg_counts = <<>> /\ mg_pc = "idle" /\ mg_primary = "pending"
    /\ mg_alternative = "not_run" /\ mg_copy = "not_run" /\ mg_calls = 0
    /\ mg_ret = "pending" /\ mg_output = NoFile

\* fixed_chunked_convert has converted every chunk and calls
\* fixed_combine_chunks(chunk_docx_paths, docx_path)
MergeInit ==
    /\ mg_counts \in CountLists(MaxMergeChunks)
    /\ mg_pc = "fixed"
    /\ mg_primary = "pending"
    /\ mg_alternative = "not_run"
    /\ mg_copy = "not_run"
    /\ mg_calls = 0
    /\ mg_ret = "pending"
    /\ mg_output = NoFile

\* fixed_combine_chunks up to its return or its call of
\* alternative_combine_chunks; import_element returns None for the elements
\* in skip
FixedCombineChunks ==
    /\ mg_pc = "fixed"
    /\ UNCHANGED <<mg_counts, mg_alternative, mg_copy, mg_calls>>
    /\ IF mg_counts = <<>>
       THEN /\ mg_ret' = "none" /\ mg_pc' = "end" /\ mg_primary' = "empty"
            /\ mg_output' = mg_output
       ELSE LET all == Concat(ChunkFiles(mg_counts))
            IN  \E outcome \in PrimaryOutcomes, skip \in SkipSets(Len(all)) :
                  LET combined == Keep(all, skip, 1)
                      raised == outcome # "ok"
                      total_tables_added == TotalTablesAdded(mg_counts)
                      failed == PrimaryFailed(raised, Len(combined), total_tables_added)
                  IN  /\ mg_output' = IF outcome = "raise_before_save"
                                      THEN mg_output ELSE File(combined)
                      /\ mg_primary' = IF raised THEN "raised"
                                       ELSE IF Len(combined) # Len(all) THEN "mismatch"
                                       ELSE "ok"
                      /\ mg_pc' = IF failed THEN "alternative" ELSE "end"
                      /\ mg_ret' = IF failed THEN mg_ret ELSE "path"

\* the try body of alternative_combine_chunks: copy the first chunk, re-create
\* the tables of the other chunks (a table that cannot be added is left out),
\* save
AlternativeCombineChunks ==
    /\ mg_pc = "alternative"
    /\ UNCHANGED <<mg_counts, mg_primary>>
    /\ mg_calls' = mg_calls + 1
    /\ mg_copy' = "not_run"
    /\ LET files == ChunkFiles(mg_counts)
           rest == Concat(Tail(files))
       IN  \E outcome \in AlternativeOutcomes, skip \in SkipSets(Len(rest)) :
             LET combined == Head(files) \o Recreate(Keep(rest, skip, 1))
             IN  /\ mg_output' = CASE outcome = "raise_at_copy" -> mg_output
                                   [] outcome = "raise_after_copy" -> File(Head(files))
                                   [] OTHER -> File(combined)
                 /\ mg_alternative' = IF outcome = "ok" THEN "ok" ELSE "raised"
                 /\ mg_pc' = IF outcome = "ok" THEN "end" ELSE "last_resort"
                 /\ mg_ret' = IF outcome = "ok" THEN "path" ELSE mg_ret

\* the except handler of alternative_combine_chunks:
\* shutil.copy2(chunk_paths[0], output_path). An exception of this copy
\* leaves alternative_combine_chunks. When the call was the one made after a
\* table-count mismatch, it sits in the try body of fixed_combine_chunks,
\* whose except handler calls alternative_combine_chunks once more;
\* otherwise the exception leaves fixed_combine_chunks too.
LastResortCopy ==
    /\ mg_pc = "last_resort"
    /\ UNCHANGED <<mg_counts, mg_primary, mg_alternative, mg_calls>>
    /\ \E copied \in BOOLEAN :
         LET caught == ~copied /\ mg_primary = "mismatch" /\ mg_calls = 1
         IN  /\ mg_copy' = IF copied THEN "ok" ELSE "raised"
             /\ mg_output' = IF copied THEN File(Head(ChunkFiles(mg_counts))) ELSE mg_output
             /\ mg_ret' = IF copied THEN "path" ELSE IF caught THEN mg_ret ELSE "raised"
             /\ mg_pc' = IF caught THEN "alternative" ELSE "end"

(***************************************************************************)
(* The JGBF parser (jgbf_parser.py): the date bucket of an input file, the *)
(* grouping of the parsed observations and the output sheet.               *)
(***************************************************************************)
LowerCase == "abcdefghijklmnopqrstuvwxyz"
UpperCase == "ABCDEFGHIJKLMNOPQRSTUVWXYZ"
Digits == "0123456789"

CharAt(s, i) == SubSeq(s, i, i)

\* position of the character c in the string s, 0 when it is not there
IndexOf(c, s) ==
    IF \E i \in 1..Len(s) : CharAt(s, i) = c
    THEN CHOOSE i \in 1..Len(s) : CharAt(s, i) = c
    ELSE 0

\* str.upper() for ASCII text
RECURSIVE Upper(_)
Upper(s) ==
    IF s = "" THEN ""
    ELSE LET c == CharAt(s, 1)
             k == IndexOf(c, LowerCase)
         IN  (IF k = 0 THEN c ELSE CharAt(UpperCase, k)) \o Upper(SubSeq(s, 2, Len(s)))

\* sub in s
Contains(s, sub) ==
    \E i \in 1..(Len(s) - Len(sub) + 1) : SubSeq(s, i, i + Len(sub) - 1) = sub

IsDigit(c) == IndexOf(c, Digits) # 0

\* int() of a string of decimal digits
RECURSIVE DigitsValue(_)
DigitsValue(s) ==
    IF s = "" THEN 0
    ELSE DigitsValue(SubSeq(s, 1, Len(s) - 1)) * 10 + (IndexOf(CharAt(s, Len(s)), Digits) - 1)

DateDigits == 8

\* re.search(r'(\d{8})', filename): the leftmost run of eight digits, "" when
\* there is none
FirstEightDigits(filename) ==
    LET starts == {i \in 1..(Len(filename) - DateDigits + 1) :
                      \A k \in 0..(DateDigits - 1) : IsDigit(CharAt(filename, i + k))}
    IN  IF starts = {} THEN ""
        ELSE LET i == CHOOSE i \in starts : \A o \in starts : i <= o
             IN  SubSeq(filename, i, i + DateDigits - 1)

IsLeap(year) == year % 4 = 0 /\ (year % 100 # 0 \/ year % 400 = 0)

DaysInMonth(year, month) ==
    IF month = 2 THEN (IF IsLeap(year) THEN 29 ELSE 28)
    ELSE IF month \in {4, 6, 9, 11} THEN 30 ELSE 31

\* datetime.strptime(date_str, '%Y%m%d') does not raise ValueError
ValidDate(year, month, day) ==
    /\ year >= 1
    /\ month \in 1..12
    /\ day >= 1 /\ day <= DaysInMonth(year, month)

DaysBeforeYear(year) ==
    LET y == year - 1
    IN  y * 365 + (y \div 4) - (y \div 100) + (y \div 400)

RECURSIVE DaysBeforeMonth(_, _)
DaysBeforeMonth(year, month) ==
    IF month = 1 THEN 0
    ELSE DaysBeforeMonth(year, month - 1) + DaysInMonth(year, month - 1)

\* date.toordinal()
Ordinal(year, month, day) == DaysBeforeYear(year) + DaysBeforeMonth(year, month) + day

\* the ordinal of the Monday that starts ISO week 1 of the year
IsoWeek1Monday(year) ==
    LET firstday == Ordinal(year, 1, 1)
        firstweekday == (firstday + 6) % 7
        monday == firstday - firstweekday
    IN  IF firstweekday > 3 THEN monday + 7 ELSE monday

\* date.isocalendar()[1]
IsoWeek(year, month, day) ==
    LET today == Ordinal(year, month, day)
        week == FloorDiv(today - IsoWeek1Monday(year), 7)
    IN  IF week < 0
        THEN FloorDiv(today - IsoWeek1Monday(year - 1), 7) + 1
        ELSE IF week >= 52 /\ today >= IsoWeek1Monday(year + 1)
        THEN 1
        ELSE week + 1

\* f"{week_num:02d}"
TwoDigits(n) == IF n < 10 THEN "0" \o ToString(n) ELSE ToString(n)

\* self.week_mapping, in insertion order
week_mapping ==
    <<[week_pattern |-> "MARCH WEEK 1", date_code |-> "2025-09"],
      [week_pattern |-> "MARCH WEEK 2", date_code |-> "2025-10"],
      [week_pattern |-> "MARCH WEEK 3", date_code |-> "2025-11"],
      [week_pattern |-> "MARCH WEEK 4", date_code |-> "2025-12"]>>

DefaultDateCode == "2025-01"

\* JGBFParser.extract_date_from_filename
extract_date_from_filename(filename) ==
    LET filename_upper == Upper(filename)
        hits == {k \in DOMAIN week_mapping :
                    Contains(filename_upper, week_mapping[k].week_pattern)}
        date_str == FirstEightDigits(filename)
        year == DigitsValue(SubSeq(date_str, 1, 4))
        month == DigitsValue(SubSeq(date_str, 5, 6))
        day == DigitsValue(SubSeq(date_str, 7, 8))
    IN  IF hits # {}
        THEN week_mapping[CHOOSE k \in hits : \A o \in hits : k <= o].date_code
        ELSE IF date_str # "" /\ ValidDate(year, month, day)
        THEN ToString(year) \o "-" \o TwoDigits(IsoWeek(year, month, day))
        ELSE DefaultDateCode

\* a time-series code, as the f-strings of the two parse functions and the
\* template spell it
SeriesCode(section, instrument_code, category, subcat, kind) ==
    "JGBF." \o section \o "." \o instrument_code \o ".TRADINGVALUE."
        \o category \o "." \o subcat \o "." \o kind \o ".W"

\* get_template_columns(): the codes of the 112 columns of the template, in
\* its order
get_template_columns ==
    <<"JGBF.TOTAL_PROPRIETARY_BROKERAGE.JGB10YEARFUTURES.TRADINGVALUE.PROPRIETARY.SALES.VALUE.W",
      "JGBF.TOTAL_PROPRIETARY_BROKERAGE.JGB10YEARFUTURES.TRADINGVALUE.PROPRIETARY.SALES.BALANCE.W",
      "JGBF.TOTAL_PROPRIETARY_BROKERAGE.JGB10YEARFUTURES.TRADINGVALUE.PROPRIETARY.PURCHASES.VALUE.W",
      "JGBF.TOTAL_PROPRIETARY_BROKERAGE.JGB10YEARFUTURES.TRADINGVALUE.PROPRIETARY.PURCHASES.BALANCE.W",
      "JGBF.TOTAL_PROPRIETARY_BROKERAGE.JGB10YEARFUTURES.TRADINGVALUE.BROKERAGE.SALES.VALUE.W",
      "JGBF.TOTAL_PROPRIETARY_BROKERAGE.JGB10YEARFUTURES.TRADINGVALUE.BROKERAGE.SALES.BALANCE.W",
      "JGBF.TOTAL_PROPRIETARY_BROKERAGE.JGB10YEARFUTURES.TRADINGVALUE.BROKERAGE.PURCHASES.VALUE.W",
      "JGBF.TOTAL_PROPRIETARY_BROKERAGE.JGB10YEARFUTURES.TRADINGVALUE.BROKERAGE.PURCHASES.BALANCE.W",
      "JGBF.TOTAL_PROPRIETARY_BROKERAGE.JGB10YEARFUTURES.TRADINGVALUE.TOTAL.SALES.VALUE.W",
      "JGBF.TOTAL_PROPRIETARY_BROKERAGE.JGB10YEARFUTURES.TRADINGVALUE.TOTAL.SALES.BALANCE.W",
      "JGBF.TOTAL_PROPRIETARY_BROKERAGE.JGB10YEARFUTURES.TRADINGVALUE.TOTAL.PURCHASES.VALUE.W",
      "JGBF.TOTAL_PROPRIETARY_BROKERAGE.JGB10YEARFUTURES.TRADINGVALUE.TOTAL.PURCHASES.BALANCE.W",
      "JGBF.BROKERAGE_BREAKDOWN.JGB10YEARFUTURES.TRADINGVALUE.INSTITUTIONS.SALES.VALUE.W",
      "JGBF.BROKERAGE_BREAKDOWN.JGB10YEARFUTURES.TRADINGVALUE.INSTITUTIONS.SALES.BALANCE.W",
      "JGBF.BROKERAGE_BREAKDOWN.JGB10YEARFUTURES.TRADINGVALUE.INSTITUTIONS.PURCHASES.VALUE.W",
      "JGBF.BROKERAGE_BREAKDOWN.JGB10YEARFUTURES.TRADINGVALUE.INSTITUTIONS.PURCHASES.BALANCE.W",
      "JGBF.BROKERAGE_BREAKDOWN.JGB10YEARFUTURES.TRADINGVALUE.INDIVIDUALS.SALES.VALUE.W",
      "JGBF.BROKERAGE_BREAKDOWN.JGB10YEARFUTURES.TRADINGVALUE.INDIVIDUALS.SALES.BALANCE.W",
      "JGBF.BROKERAGE_BREAKDOWN.JGB10YEARFUTURES.TRADINGVALUE.INDIVIDUALS.PURCHASES.VALUE.W",
      "JGBF.BROKERAGE_BREAKDOWN.JGB10YEARFUTURES.TRADINGVALUE.INDIVIDUALS.PURCHASES.BALANCE.W",
      "JGBF.BROKERAGE_BREAKDOWN.JGB10YEARFUTURES.TRADINGVALUE.FOREIGNERS.SALES.VALUE.W",
      "JGBF.BROKERAGE_BREAKDOWN.JGB10YEARFUTURES.TRADINGVALUE.FOREIGNERS.SALES.BALANCE.W",
      "JGBF.BROKERAGE_BREAKDOWN.JGB10YEARFUTURES.TRADINGVALUE.FOREIGNERS.PURCHASES.VALUE.W",
      "JGBF.BROKERAGE_BREAKDOWN.JGB10YEARFUTURES.TRADINGVALUE.FOREIGNERS.PURCHASES.BALANCE.W",
      "JGBF.BROKERAGE_BREAKDOWN.JGB10YEARFUTURES.TRADINGVALUE.SECURITIES_COS.SALES.VALUE.W",
      "JGBF.BROKERAGE_BREAKDOWN.JGB10YEARFUTURES.TRADINGVALUE.SECURITIES_COS.SALES.BALANCE.W",
      "JGBF.BROKERAGE_BREAKDOWN.JGB10YEARFUTURES.TRADINGVALUE.SECURITIES_COS.PURCHASES.VALUE.W",
      "JGBF.BROKERAGE_BREAKDOWN.JGB10YEARFUTURES.TRADINGVALUE.SECURITIES_COS.PURCHASES.BALANCE.W",
      "JGBF.TOTAL_PROPRIETARY_BROKERAGE.MINI10YEARJGBFUTURESCASHSETTLED.TRADINGVALUE.PROPRIETARY.SALES.VALUE.W",
      "JGBF.TOTAL_PROPRIETARY_BROKERAGE.MINI10YEARJGBFUTURESCASHSETTLED.TRADINGVALUE.PROPRIETARY.SALES.BALANCE.W",
      "JGBF.TOTAL_PROPRIETARY_BROKERAGE.MINI10YEARJGBFUTURESCASHSETTLED.TRADINGVALUE.PROPRIETARY.PURCHASES.VALUE.W",
      "JGBF.TOTAL_PROPRIETARY_BROKERAGE.MINI10YEARJGBFUTURESCASHSETTLED.TRADINGVALUE.PROPRIETARY.PURCHASES.BALANCE.W",
      "JGBF.TOTAL_PROPRIETARY_BROKERAGE.MINI10YEARJGBFUTURESCASHSETTLED.TRADINGVALUE.BROKERAGE.SALES.VALUE.W",
      "JGBF.TOTAL_PROPRIETARY_BROKERAGE.MINI10YEARJGBFUTURESCASHSETTLED.TRADINGVALUE.BROKERAGE.SALES.BALANCE.W",
      "JGBF.TOTAL_PROPRIETARY_BROKERAGE.MINI10YEARJGBFUTURESCASHSETTLED.TRADINGVALUE.BROKERAGE.PURCHASES.VALUE.W",
      "JGBF.TOTAL_PROPRIETARY_BROKERAGE.MINI10YEARJGBFUTURESCASHSETTLED.TRADINGVALUE.BROKERAGE.PURCHASES.BALANCE.W",
      "JGBF.TOTAL_PROPRIETARY_BROKERAGE.MINI10YEARJGBFUTURESCASHSETTLED.TRADINGVALUE.TOTAL.SALES.VALUE.W",
      "JGBF.TOTAL_PROPRIETARY_BROKERAGE.MINI10YEARJGBFUTURESCASHSETTLED.TRADINGVALUE.TOTAL.SALES.BALANCE.W",
      "JGBF.TOTAL_PROPRIETARY_BROKERAGE.MINI10YEARJGBFUTURESCASHSETTLED.TRADINGVALUE.TOTAL.PURCHASES.VALUE.W",
      "JGBF.TOTAL_PROPRIETARY_BROKERAGE.MINI10YEARJGBFUTURESCASHSETTLED.TRADINGVALUE.TOTAL.PURCHASES.BALANCE.W",
      "JGBF.BROKERAGE_BREAKDOWN.MINI10YEARJGBFUTURESCASHSETTLED.TRADINGVALUE.INSTITUTIONS.SALES.VALUE.W",
      "JGBF.BROKERAGE_BREAKDOWN.MINI10YEARJGBFUTURESCASHSETTLED.TRADINGVALUE.INSTITUTIONS.SALES.BALANCE.W",
      "JGBF.BROKERAGE_BREAKDOWN.MINI10YEARJGBFUTURESCASHSETTLED.TRADINGVALUE.INSTITUTIONS.PURCHASES.VALUE.W",
      "JGBF.BROKERAGE_BREAKDOWN.MINI10YEARJGBFUTURESCASHSETTLED.TRADINGVALUE.INSTITUTIONS.PURCHASES.BALANCE.W",
      "JGBF.BROKERAGE_BREAKDOWN.MINI10YEARJGBFUTURESCASHSETTLED.TRADINGVALUE.INDIVIDUALS.SALES.VALUE.W",
      "JGBF.BROKERAGE_BREAKDOWN.MINI10YEARJGBFUTURESCASHSETTLED.TRADINGVALUE.INDIVIDUALS.SALES.BALANCE.W",
      "JGBF.BROKERAGE_BREAKDOWN.MINI10YEARJGBFUTURESCASHSETTLED.TRADINGVALUE.INDIVIDUALS.PURCHASES.VALUE.W",
      "JGBF.BROKERAGE_BREAKDOWN.MINI10YEARJGBFUTURESCASHSETTLED.TRADINGVALUE.INDIVIDUALS.PURCHASES.BALANCE.W",
      "JGBF.BROKERAGE_BREAKDOWN.MINI10YEARJGBFUTURESCASHSETTLED.TRADINGVALUE.FOREIGNERS.SALES.VALUE.W",
      "JGBF.BROKERAGE_BREAKDOWN.MINI10YEARJGBFUTURESCASHSETTLED.TRADINGVALUE.FOREIGNERS.SALES.BALANCE.W",
      "JGBF.BROKERAGE_BREAKDOWN.MINI10YEARJGBFUTURESCASHSETTLED.TRADINGVALUE.FOREIGNERS.PURCHASES.VALUE.W",
      "JGBF.BROKERAGE_BREAKDOWN.MINI10YEARJGBFUTURESCASHSETTLED.TRADINGVALUE.FOREIGNERS.PURCHASES.BALANCE.W",
      "JGBF.BROKERAGE_BREAKDOWN.MINI10YEARJGBFUTURESCASHSETTLED.TRADINGVALUE.SECURITIES_COS.SALES.VALUE.W",
      "JGBF.BROKERAGE_BREAKDOWN.MINI10YEARJGBFUTURESCASHSETTLED.TRADINGVALUE.SECURITIES_COS.SALES.BALANCE.W",
      "JGBF.BROKERAGE_BREAKDOWN.MINI10YEARJGBFUTURESCASHSETTLED.TRADINGVALUE.SECURITIES_COS.PURCHASES.VALUE.W",
      "JGBF.BROKERAGE_BREAKDOWN.MINI10YEARJGBFUTURESCASHSETTLED.TRADINGVALUE.SECURITIES_COS.PURCHASES.BALANCE.W",
      "JGBF.TOTAL_PROPRIETARY_BROKERAGE.MINI20YEARJGBFUTURES.TRADINGVALUE.PROPRIETARY.SALES.VALUE.W",
      "JGBF.TOTAL_PROPRIETARY_BROKERAGE.MINI20YEARJGBFUTURES.TRADINGVALUE.PROPRIETARY.SALES.BALANCE.W",
      "JGBF.TOTAL_PROPRIETARY_BROKERAGE.MINI20YEARJGBFUTURES.TRADINGVALUE.PROPRIETARY.PURCHASES.VALUE.W",
      "JGBF.TOTAL_PROPRIETARY_BROKERAGE.MINI20YEARJGBFUTURES.TRADINGVALUE.PROPRIETARY.PURCHASES.BALANCE.W",
      "JGBF.TOTAL_PROPRIETARY_BROKERAGE.MINI20YEARJGBFUTURES.TRADINGVALUE.BROKERAGE.SALES.VALUE.W",
      "JGBF.TOTAL_PROPRIETARY_BROKERAGE.MINI20YEARJGBFUTURES.TRADINGVALUE.BROKERAGE.SALES.BALANCE.W",
      "JGBF.TOTAL_PROPRIETARY_BROKERAGE.MINI20YEARJGBFUTURES.TRADINGVALUE.BROKERAGE.PURCHASES.VALUE.W",
      "JGBF.TOTAL_PROPRIETARY_BROKERAGE.MINI20YEARJGBFUTURES.TRADINGVALUE.BROKERAGE.PURCHASES.BALANCE.W",
      "JGBF.TOTAL_PROPRIETARY_BROKERAGE.MINI20YEARJGBFUTURES.TRADINGVALUE.TOTAL.SALES.VALUE.W",
      "JGBF.TOTAL_PROPRIETARY_BROKERAGE.MINI20YEARJGBFUTURES.TRADINGVALUE.TOTAL.SALES.BALANCE.W",
      "JGBF.TOTAL_PROPRIETARY_BROKERAGE.MINI20YEARJGBFUTURES.TRADINGVALUE.TOTAL.PURCHASES.VALUE.W",
      "JGBF.TOTAL_PROPRIETARY_BROKERAGE.MINI20YEARJGBFUTURES.TRADINGVALUE.TOTAL.PURCHASES.BALANCE.W",
      "JGBF.BROKERAGE_BREAKDOWN.MINI20YEARJGBFUTURES.TRADINGVALUE.INSTITUTIONS.SALES.VALUE.W",
      "JGBF.BROKERAGE_BREAKDOWN.MINI20YEARJGBFUTURES.TRADINGVALUE.INSTITUTIONS.SALES.BALANCE.W",
      "JGBF.BROKERAGE_BREAKDOWN.MINI20YEARJGBFUTURES.TRADINGVALUE.INSTITUTIONS.PURCHASES.VALUE.W",
      "JGBF.BROKERAGE_BREAKDOWN.MINI20YEARJGBFUTURES.TRADINGVALUE.INSTITUTIONS.PURCHASES.BALANCE.W",
      "JGBF.BROKERAGE_BREAKDOWN.MINI20YEARJGBFUTURES.TRADINGVALUE.INDIVIDUALS.SALES.VALUE.W",
      "JGBF.BROKERAGE_BREAKDOWN.MINI20YEARJGBFUTURES.TRADINGVALUE.INDIVIDUALS.SALES.BALANCE.W",
      "JGBF.BROKERAGE_BREAKDOWN.MINI20YEARJGBFUTURES.TRADINGVALUE.INDIVIDUALS.PURCHASES.VALUE.W",
      "JGBF.BROKERAGE_BREAKDOWN.MINI20YEARJGBFUTURES.TRADINGVALUE.INDIVIDUALS.PURCHASES.BALANCE.W",
      "JGBF.BROKERAGE_BREAKDOWN.MINI20YEARJGBFUTURES.TRADINGVALUE.FOREIGNERS.SALES.VALUE.W",
      "JGBF.BROKERAGE_BREAKDOWN.MINI20YEARJGBFUTURES.TRADINGVALUE.FOREIGNERS.SALES.BALANCE.W",
      "JGBF.BROKERAGE_BREAKDOWN.MINI20YEARJGBFUTURES.TRADINGVALUE.FOREIGNERS.PURCHASES.VALUE.W",
      "JGBF.BROKERAGE_BREAKDOWN.MINI20YEARJGBFUTURES.TRADINGVALUE.FOREIGNERS.PURCHASES.BALANCE.W",
      "JGBF.BROKERAGE_BREAKDOWN.MINI20YEARJGBFUTURES.TRADINGVALUE.SECURITIES_COS.SALES.VALUE.W",
      "JGBF.BROKERAGE_BREAKDOWN.MINI20YEARJGBFUTURES.TRADINGVALUE.SECURITIES_COS.SALES.BALANCE.W",
      "JGBF.BROKERAGE_BREAKDOWN.MINI20YEARJGBFUTURES.TRADINGVALUE.SECURITIES_COS.PURCHASES.VALUE.W",
      "JGBF.BROKERAGE_BREAKDOWN.MINI20YEARJGBFUTURES.TRADINGVALUE.SECURITIES_COS.PURCHASES.BALANCE.W",
      "JGBF.TOTAL_PROPRIETARY_BROKERAGE.3MONTHTONAFUTURES.TRADINGVALUE.PROPRIETARY.SALES.VALUE.W",
      "JGBF.TOTAL_PROPRIETARY_BROKERAGE.3MONTHTONAFUTURES.TRADINGVALUE.PROPRIETARY.SALES.BALANCE.W",
      "JGBF.TOTAL_PROPRIETARY_BROKERAGE.3MONTHTONAFUTURES.TRADINGVALUE.PROPRIETARY.PURCHASES.VALUE.W",
      "JGBF.TOTAL_PROPRIETARY_BROKERAGE.3MONTHTONAFUTURES.TRADINGVALUE.PROPRIETARY.PURCHASES.BALANCE.W",
      "JGBF.TOTAL_PROPRIETARY_BROKERAGE.3MONTHTONAFUTURES.TRADINGVALUE.BROKERAGE.SALES.VALUE.W",
      "JGBF.TOTAL_PROPRIETARY_BROKERAGE.3MONTHTONAFUTURES.TRADINGVALUE.BROKERAGE.SALES.BALANCE.W",
      "JGBF.TOTAL_PROPRIETARY_BROKERAGE.3MONTHTONAFUTURES.TRADINGVALUE.BROKERAGE.PURCHASES.VALUE.W",
      "JGBF.TOTAL_PROPRIETARY_BROKERAGE.3MONTHTONAFUTURES.TRADINGVALUE.BROKERAGE.PURCHASES.BALANCE.W",
      "JGBF.TOTAL_PROPRIETARY_BROKERAGE.3MONTHTONAFUTURES.TRADINGVALUE.TOTAL.SALES.VALUE.W",
      "JGBF.TOTAL_PROPRIETARY_BROKERAGE.3MONTHTONAFUTURES.TRADINGVALUE.TOTAL.SALES.BALANCE.W",
      "JGBF.TOTAL_PROPRIETARY_BROKERAGE.3MONTHTONAFUTURES.TRADINGVALUE.TOTAL.PURCHASES.VALUE.W",
      "JGBF.TOTAL_PROPRIETARY_BROKERAGE.3MONTHTONAFUTURES.TRADINGVALUE.TOTAL.PURCHASES.BALANCE.W",
      "JGBF.BROKERAGE_BREAKDOWN.3MONTHTONAFUTURES.TRADINGVALUE.INSTITUTIONS.SALES.VALUE.W",
      "JGBF.BROKERAGE_BREAKDOWN.3MONTHTONAFUTURES.TRADINGVALUE.INSTITUTIONS.SALES.BALANCE.W",
      "JGBF.BROKERAGE_BREAKDOWN.3MONTHTONAFUTURES.TRADINGVALUE.INSTITUTIONS.PURCHASES.VALUE.W",
      "JGBF.BROKERAGE_BREAKDOWN.3MONTHTONAFUTURES.TRADINGVALUE.INSTITUTIONS.PURCHASES.BALANCE.W",
      "JGBF.BROKERAGE_BREAKDOWN.3MONTHTONAFUTURES.TRADINGVALUE.INDIVIDUALS.SALES.VALUE.W",
      "JGBF.BROKERAGE_BREAKDOWN.3MONTHTONAFUTURES.TRADINGVALUE.INDIVIDUALS.SALES.BALANCE.W",
      "JGBF.BROKERAGE_BREAKDOWN.3MONTHTONAFUTURES.TRADINGVALUE.INDIVIDUALS.PURCHASES.VALUE.W",
      "JGBF.BROKERAGE_BREAKDOWN.3MONTHTONAFUTURES.TRADINGVALUE.INDIVIDUALS.PURCHASES.BALANCE.W",
      "JGBF.BROKERAGE_BREAKDOWN.3MONTHTONAFUTURES.TRADINGVALUE.FOREIGNERS.SALES.VALUE.W",
      "JGBF.BROKERAGE_BREAKDOWN.3MONTHTONAFUTURES.TRADINGVALUE.FOREIGNERS.SALES.BALANCE.W",
      "JGBF.BROKERAGE_BREAKDOWN.3MONTHTONAFUTURES.TRADINGVALUE.FOREIGNERS.PURCHASES.VALUE.W",
      "JGBF.BROKERAGE_BREAKDOWN.3MONTHTONAFUTURES.TRADINGVALUE.FOREIGNERS.PURCHASES.BALANCE.W",
      "JGBF.BROKERAGE_BREAKDOWN.3MONTHTONAFUTURES.TRADINGVALUE.SECURITIES_COS.SALES.VALUE.W",
      "JGBF.BROKERAGE_BREAKDOWN.3MONTHTONAFUTURES.TRADINGVALUE.SECURITIES_COS.SALES.BALANCE.W",
      "JGBF.BROKERAGE_BREAKDOWN.3MONTHTONAFUTURES.TRADINGVALUE.SECURITIES_COS.PURCHASES.VALUE.W",
      "JGBF.BROKERAGE_BREAKDOWN.3MONTHTONAFUTURES.TRADINGVALUE.SECURITIES_COS.PURCHASES.BALANCE.W">>

\* str < str for the characters of a date code
DateChars == "-0123456789"

RECURSIVE StrLess(_, _)
StrLess(a, b) ==
    IF b = "" THEN FALSE
    ELSE IF a = "" THEN TRUE
    ELSE LET ra == IndexOf(CharAt(a, 1), DateChars)
             rb == IndexOf(CharAt(b, 1), DateChars)
         IN  IF ra # rb THEN ra < rb
             ELSE StrLess(SubSeq(a, 2, Len(a)), SubSeq(b, 2, Len(b)))

\* sorted(list(all_dates))
RECURSIVE SortedDatesMutant(_)
SortedDatesMutant(dates) ==
    IF dates = {} THEN <<>>
    ELSE LET m == CHOOSE m \in dates : \A o \in dates : ~StrLess(m, o)
         IN  <<m>> \o SortedDatesMutant(dates \ {m})

RECURSIVE SortedDates(_)
SortedDates(dates) ==
    IF dates = {} THEN <<>>
    ELSE LET m == CHOOSE m \in dates : \A o \in dates : ~StrLess(o, m)
         IN  <<m>> \o SortedDates(dates \ {m})

NoSeries == [code \in {} |-> <<>>]

\* time_series_data after the grouping loop: per code its data_points, a later
\* item of the same code and date replacing the earlier one
RECURSIVE GroupByCode(_)
GroupByCode(items) ==
    IF items = <<>> THEN NoSeries
    ELSE LET before == GroupByCode(SubSeq(items, 1, Len(items) - 1))
             item == items[Len(items)]
             PointsOf(code) == IF code \in DOMAIN before THEN before[code] ELSE NoSeries
         IN  [code \in DOMAIN before \cup {item.code} |->
                IF code = item.code
                THEN [date \in DOMAIN PointsOf(code) \cup {item.date} |->
                        IF date = item.date THEN item.value ELSE PointsOf(code)[date]]
                ELSE before[code]]

\* time_series_data[code]['data_points'].get(date, ""), "" for a code that has
\* no data
DataPoint(time_series_data, code, date) ==
    IF code \in DOMAIN time_series_data /\ date \in DOMAIN time_series_data[code]
    THEN time_series_data[code][date]
    ELSE ""

NoOutput == [written |-> FALSE, columns |-> <<>>, rows |-> <<>>]

\* the JGBF_DATA sheet generate_output_file saves: row 1 and the data rows
OutputSheet(items) ==
    LET time_series_data == GroupByCode(items)
        all_dates == UNION {DOMAIN time_series_data[code] : code \in DOMAIN time_series_data}
        sorted_dates == SortedDates(all_dates)
        template_columns == get_template_columns
    IN  [written |-> TRUE,
         columns |-> template_columns,
         rows |-> [r \in DOMAIN sorted_dates |->
                     [date |-> sorted_dates[r],
                      cells |-> [col \in DOMAIN template_columns |->
                                   DataPoint(time_series_data, template_columns[col],
                                             sorted_dates[r])]]]]

\* stems of the *_extracted.xlsx files an input folder may hold
FileStems ==
    {"March Week 1_extracted", "jgb_20250224_extracted", "jgb_20241230_extracted",
     "jgb_20250230_extracted", "report_a_extracted", "report_b_extracted"}

\* what process_single_file may extract from one file: the template columns
\* of its data points, in extraction order
ParsedColumns == {<<>>, <<1>>, <<1, 14>>, <<14, 1>>, <<1, 1>>}

\* the data points of one file: code, the date bucket of the file, and a value
\* that tells the observations apart
FileResults(stem, columns, offset) ==
    [k \in DOMAIN columns |->
        [code |-> get_template_columns[columns[k]],
         date |-> extract_date_from_filename(stem),
         value |-> ToString(offset + k)]]

JgbfIdle ==
    /\ jg_pc = "idle" /\ jg_names = <<>> /\ all_data = <<>> /\ jg_out = NoOutput

\* JGBFParser.process_all_files has listed the input folder
JgbfInit ==
    /\ jg_pc = "files" /\ jg_names = <<>> /\ all_data = <<>> /\ jg_out = NoOutput

\* one iteration of "for file_path in excel_files": process_single_file and
\* all_data.extend(file_results)
ProcessSingleFile ==
    /\ jg_pc = "files"
    /\ Len(jg_names) < MaxFiles
    /\ \E stem \in FileStems, columns \in ParsedColumns :
         /\ \A k \in DOMAIN jg_names : jg_names[k] # stem
         /\ jg_names' = Append(jg_names, stem)
         /\ all_data' = all_data \o FileResults(stem, columns, Len(all_data))
    /\ UNCHANGED <<jg_pc, jg_out>>

\* the end of process_all_files: generate_output_file when there is data
GenerateOutputFile ==
    /\ jg_pc = "files"
    /\ jg_names # <<>>
    /\ jg_out' = IF all_data = <<>> THEN jg_out ELSE OutputSheet(all_data)
    /\ jg_pc' = "done"
    /\ UNCHANGED <<jg_names, all_data>>

(***************************************************************************)
(* From a PDF page to the instrument code (tittle3.py, jgbf_parser.py):    *)
(* the subtitle line the selective converter captures, the data sheet it   *)
(* writes for a table, and what the parser reads back from that sheet.     *)
(*                                                                         *)
(* A character outside ASCII is written as its code point between angle   *)
(* brackets, <u9577> for U+9577; no text of the source holds an angle      *)
(* bracket, so "in", replace and lower act on the written form as they do  *)
(* on the text.                                                            *)
(***************************************************************************)
\* str.lower() for the texts at hand, computed half by half
RECURSIVE Lower(_)
Lower(s) ==
    IF s = "" THEN ""
    ELSE IF Len(s) = 1
    THEN LET k == IndexOf(s, UpperCase)
         IN  IF k = 0 THEN s ELSE CharAt(LowerCase, k)
    ELSE LET half == Len(s) \div 2
         IN  Lower(SubSeq(s, 1, half)) \o Lower(SubSeq(s, half + 1, Len(s)))

\* s.find(sub) + 1: the first position of sub in s, 0 when it is not there
Find(s, sub) ==
    LET At(i) == SubSeq(s, i, i + Len(sub) - 1) = sub
        positions == 1..(Len(s) - Len(sub) + 1)
    IN  IF \E i \in positions : At(i)
        THEN CHOOSE i \in positions : At(i) /\ \A j \in 1..(i - 1) : ~At(j)
        ELSE 0

\* s.replace(old, new): the occurrences of old from left to right
RECURSIVE Replace(_, _, _)
Replace(s, old, new) ==
    LET i == Find(s, old)
    IN  IF i = 0 THEN s
        ELSE SubSeq(s, 1, i - 1) \o new
                \o Replace(SubSeq(s, i + Len(old), Len(s)), old, new)

\* s.strip() for texts whose only white space is the space
RECURSIVE StripText(_)
StripText(s) ==
    IF s = "" THEN ""
    ELSE IF CharAt(s, 1) = " " THEN StripText(SubSeq(s, 2, Len(s)))
    ELSE IF CharAt(s, Len(s)) = " " THEN StripText(SubSeq(s, 1, Len(s) - 1))
    ELSE s

\* s.startswith(prefix)
StartsWith(s, prefix) ==
    Len(s) >= Len(prefix) /\ SubSeq(s, 1, Len(prefix)) = prefix

\* the value of a cell nothing was written to
None == "<None>"

\* self.target_subtitles after sort(key=len, reverse=True)
target_subtitles ==
    <<"mini-10-year JGB Futures (Cash-Settled)",
      "mini-20-year JGB Futures",
      "JGB(10-year) Futures",
      "3-Month TONA Futures",
      "<u9577><u671f><u56fd><u50b5><u5148><u7269><uff08><u73fe><u91d1><u6c7a><u6e08><u578b><u30df><u30cb><uff09>">>

primary_exclusion_keywords == <<"Options on", "<u30aa><u30d7><u30b7><u30e7><u30f3>">>

\* self.instrument_mapping, in insertion order
instrument_mapping ==
    <<[key |-> "JGB(10-year) Futures", code |-> "JGB10YEARFUTURES"],
      [key |-> "mini-10-year JGB Futures", code |-> "MINI10YEARJGBFUTURESCASHSETTLED"],
      [key |-> "mini-20-year JGB Futures", code |-> "MINI20YEARJGBFUTURES"],
      [key |-> "3-Month TONA Futures", code |-> "3MONTHTONAFUTURES"]>>

\* the fallback loop of extract_instrument_from_subtitle
RECURSIVE FallbackCode(_, _)
FallbackCode(subtitle_clean, mapping) ==
    IF mapping = <<>> THEN None
    ELSE IF Contains(subtitle_clean, Head(mapping).key) THEN Head(mapping).code
    ELSE FallbackCode(subtitle_clean, Tail(mapping))

extract_instrument_from_subtitle(subtitle) ==
    LET subtitle_clean ==
            Replace(Replace(Replace(subtitle, "<uff08>", "("), "<uff09>", ")"), "<u3001>", ",")
    IN  IF Contains(subtitle_clean, "JGB(10-year)") \/ Contains(subtitle_clean, "<u9577><u671f><u56fd><u50b5><u5148><u7269>")
        THEN IF \/ Contains(Lower(subtitle_clean), "mini")
                \/ Contains(subtitle_clean, "<u30df><u30cb>")
                \/ Contains(subtitle_clean, "<u73fe><u91d1><u6c7a><u6e08><u578b><u30df><u30cb>")
             THEN "MINI10YEARJGBFUTURESCASHSETTLED"
             ELSE "JGB10YEARFUTURES"
        ELSE IF Contains(Lower(subtitle_clean), "mini-20-year") \/ Contains(subtitle_clean, "20<u5e74>")
        THEN "MINI20YEARJGBFUTURES"
        ELSE IF Contains(subtitle_clean, "3-Month TONA") \/ Contains(subtitle_clean, "TONA")
        THEN "3MONTHTONAFUTURES"
        ELSE FallbackCode(subtitle_clean, instrument_mapping)

\* lines of page text, each with the instrument whose section it heads
\* ("none" for a line that heads no section of the four instruments)
PageLines ==
    {[text |-> "<u9577><u671f><u56fd><u50b5><u5148><u7269> JGB(10-year) Futures", names |-> "JGB10YEARFUTURES"],
     [text |-> "JGB(10-year) Futures", names |-> "JGB10YEARFUTURES"],
     [text |-> "<u9577><u671f><u56fd><u50b5><u5148><u7269><uff08><u73fe><u91d1><u6c7a><u6e08><u578b><u30df><u30cb><uff09> mini-10-year JGB Futures (Cash-Settled)", names |-> "MINI10YEARJGBFUTURESCASHSETTLED"],
     [text |-> "<u9577><u671f><u56fd><u50b5><u5148><u7269><uff08><u73fe><u91d1><u6c7a><u6e08><u578b><u30df><u30cb><uff09> mini-10-year JGB Futures<uff08>Cash-Settled<uff09>", names |-> "MINI10YEARJGBFUTURESCASHSETTLED"],
     [text |-> "  mini-10-year JGB Futures (Cash-Settled) ", names |-> "MINI10YEARJGBFUTURESCASHSETTLED"],
     [text |-> "<u8d85><u9577><u671f><u56fd><u50b5><u5148><u7269><uff08><u30df><u30cb><uff09> mini-20-year JGB Futures", names |-> "MINI20YEARJGBFUTURES"],
     [text |-> "mini-20-year JGB Futures", names |-> "MINI20YEARJGBFUTURES"],
     [text |-> "TONA3<u304b><u6708><u91d1><u5229><u5148><u7269> 3-Month TONA Futures", names |-> "3MONTHTONAFUTURES"],
     [text |-> "<u9577><u671f><u56fd><u50b5><u5148><u7269><u30aa><u30d7><u30b7><u30e7><u30f3> Options on JGB(10-year) Futures", names |-> "none"],
     [text |-> "Trading by Type of Investors", names |-> "none"],
     [text |-> "   ", names |-> "none"]}

\* page.get_text("text").splitlines(): a page of two lines
Pages == {<<first, second>> : first \in PageLines, second \in PageLines}

AnyIn(keywords, line) == \E k \in DOMAIN keywords : Contains(line, keywords[k])

\* whether the loop over the lines of a page stops at this line
IsSubtitleLine(line) ==
    /\ StripText(line) # ""
    /\ ~AnyIn(primary_exclusion_keywords, line)
    /\ AnyIn(target_subtitles, line)

\* index of the line get_relevant_pages_and_subtitles captures, 0 for a page
\* that is not relevant
CapturedLine(lines) ==
    IF \E k \in DOMAIN lines : IsSubtitleLine(lines[k].text)
    THEN CHOOSE k \in DOMAIN lines :
            /\ IsSubtitleLine(lines[k].text)
            /\ \A i \in 1..(k - 1) : ~IsSubtitleLine(lines[i].text)
    ELSE 0

\* the cell texts of a table row: first and second column
TableRows ==
    {<<"", "">>, <<"", "12">>, <<" Proprietary ", "12">>, <<"Brokerage", "">>}

RECURSIVE TablesOf(_)
TablesOf(n) ==
    IF n = 0 THEN {<<>>}
    ELSE TablesOf(n - 1)
            \cup {Append(t, row) : t \in {x \in TablesOf(n - 1) : Len(x) = n - 1},
                                   row \in TableRows}

\* start_row of copy_table_to_sheet_with_enhanced_titles
start_row == 5
\* min_row of the iter_rows call of read_excel_sheet
min_row == 6
\* subtitle[10:]
SubtitlePrefixLen == 10

main_title == "Trading by Type of Investors"

\* the sheet after copy_table_to_sheet_with_enhanced_titles: row r of the
\* sheet is element r, columns A and B
WrittenSheet(table, subtitle, table_title) ==
    LET titles == <<<<"Title: " \o main_title, None>>,
                    <<"Subtitle: " \o subtitle, None>>,
                    <<"Table Title: " \o table_title, None>>,
                    <<"", None>>>>
    IN  [row \in 1..(start_row - 1 + Len(table)) |->
            IF row < start_row THEN titles[row]
            ELSE LET table_row == table[row - start_row + 1]
                 IN  <<StripText(table_row[1]), StripText(table_row[2])>>]

\* "if row[0]"
Truthy(value) == value # None /\ value # ""

\* ws.iter_rows(min_row=6, values_only=True), filtered on the first column
DataRows(sheet) ==
    LET HasFirst(row) == Truthy(row[1])
    IN  SelectSeq(SubSeq(sheet, min_row, Len(sheet)), HasFirst)

NoSheetData == [subtitle |-> None, data_rows |-> <<>>]

\* read_excel_sheet for a sheet of the workbook
read_excel_sheet(sheet) ==
    LET subtitle == IF sheet[2][1] = None THEN "" ELSE sheet[2][1]
    IN  [subtitle |-> IF StartsWith(subtitle, "Subtitle: ")
                      THEN SubSeq(subtitle, SubtitlePrefixLen + 1, Len(subtitle))
                      ELSE subtitle,
         data_rows |-> DataRows(sheet)]

SheetIdle ==
    /\ sheet_pc = "idle" /\ page_lines = <<>> /\ table_rows = <<>>
    /\ subtitle_line = None /\ ws = <<>> /\ sheet_data = NoSheetData
    /\ sheet_instrument = None

\* a PDF page and the first table the conversion library finds on it
SheetInit ==
    /\ sheet_pc = "scan"
    /\ page_lines \in Pages
    /\ table_rows \in TablesOf(MaxRows)
    /\ subtitle_line = None /\ ws = <<>> /\ sheet_data = NoSheetData
    /\ sheet_instrument = None

\* get_relevant_pages_and_subtitles for the page
GetRelevantPagesAndSubtitles ==
    /\ sheet_pc = "scan"
    /\ LET k == CapturedLine(page_lines)
       IN  IF k = 0
           THEN /\ sheet_pc' = "skipped"
                /\ subtitle_line' = subtitle_line
           ELSE /\ sheet_pc' = "convert"
                /\ subtitle_line' = StripText(page_lines[k].text)
    /\ UNCHANGED <<page_lines, table_rows, ws, sheet_data, sheet_instrument>>

\* convert_docx_to_excel of tittle3.py for the page's first table
CopyTableToSheetWithEnhancedTitles ==
    /\ sheet_pc = "convert"
    /\ ws' = WrittenSheet(table_rows, subtitle_line, "Total, Proprietary & Brokerage")
    /\ sheet_pc' = "saved"
    /\ UNCHANGED <<page_lines, table_rows, subtitle_line, sheet_data, sheet_instrument>>

\* process_single_file: read_excel_sheet(file_path, sheet_name)
ReadExcelSheet ==
    /\ sheet_pc = "saved"
    /\ sheet_data' = read_excel_sheet(ws)
    /\ sheet_pc' = "read"
    /\ UNCHANGED <<page_lines, table_rows, subtitle_line, ws, sheet_instrument>>

\* process_single_file: extract_instrument_from_subtitle(sheet_data['subtitle'])
ExtractInstrument ==
    /\ sheet_pc = "read"
    /\ sheet_instrument' = extract_instrument_from_subtitle(sheet_data.subtitle)
    /\ sheet_pc' = "parsed"
    /\ UNCHANGED <<page_lines, table_rows, subtitle_line, ws, sheet_data>>

(***************************************************************************)
(* The fast converter (fast_parallel_converter.py): the loop over the PDF  *)
(* files, the fast conversion and its fallback.                            *)
(***************************************************************************)
fast_convert_pdf_to_docxMutant(exists, fast_raises, fallback_raises) ==
    IF exists
    THEN [fast |-> "not_run", fallback |-> "not_run", docx_path |-> "docx"]
    ELSE IF ~fast_raises
    THEN [fast |-> "ok", fallback |-> "not_run", docx_path |-> "docx"]
    ELSE [fast |-> "raised", fallback |-> IF fallback_raises THEN "raised" ELSE "ok",
          docx_path |-> "none"]

\* fast_convert_pdf_to_docx, with the call of fallback_convert_pdf_to_docx in
\* its except handler: which conversions ran and the path returned ("docx"
\* for <stem>.docx, "fallback_docx" for <stem>_fallback.docx, "none" for None)
fast_convert_pdf_to_docx(exists, fast_raises, fallback_raises) ==
    IF exists
    THEN [fast |-> "not_run", fallback |-> "not_run", docx_path |-> "docx"]
    ELSE IF ~fast_raises
    THEN [fast |-> "ok", fallback |-> "not_run", docx_path |-> "docx"]
    ELSE IF ~fallback_raises
    THEN [fast |-> "raised", fallback |-> "ok", docx_path |-> "fallback_docx"]
    ELSE [fast |-> "raised", fallback |-> "raised", docx_path |-> "none"]

\* how fast_convert_docx_to_excel may end; it catches what it raises
FastExcelOutcomes == {"saved", "no_tables", "failed"}

FastIdle == fa_pc = "idle" /\ fa_n = 0 /\ fa_log = <<>>

\* process_all_files has listed the input folder and found PDF files
FastInit == fa_pc = "pdf" /\ fa_n \in 1..MaxFastPdfs /\ fa_log = <<>>

\* "for pdf_file in pdf_files": docx_path = self.fast_convert_pdf_to_docx(pdf_file)
FastConvertPdf ==
    /\ fa_pc = "pdf"
    /\ Len(fa_log) < fa_n
    /\ \E exists \in BOOLEAN, fast_raises \in BOOLEAN, fallback_raises \in BOOLEAN :
         LET got == fast_convert_pdf_to_docx(exists, fast_raises, fallback_raises)
         IN  /\ fa_log' = Append(fa_log, [fast |-> got.fast, fallback |-> got.fallback,
                                          docx_path |-> got.docx_path,
                                          excel |-> "not_run"])
             /\ fa_pc' = IF got.docx_path # "none" THEN "excel" ELSE "pdf"
    /\ UNCHANGED fa_n

\* "if docx_path: self.fast_convert_docx_to_excel(docx_path, ...)"
FastConvertDocxToExcel ==
    /\ fa_pc = "excel"
    /\ \E outcome \in FastExcelOutcomes :
         fa_log' = [fa_log EXCEPT ![Len(fa_log)].excel = outcome]
    /\ fa_pc' = "pdf"
    /\ UNCHANGED fa_n

\* the loop over the PDF files has ended; the loop over the DOCX inputs
\* follows, and each of its calls catches what it raises
FastProcessDocxFiles ==
    /\ fa_pc = "pdf"
    /\ Len(fa_log) = fa_n
    /\ fa_pc' = "done"
    /\ UNCHANGED <<fa_n, fa_log>>

(***************************************************************************)
(* The sequential converter (chunked_pdf_converter.py): the chunk loop of  *)
(* fixed_chunked_convert and the step of process_all_files after it.       *)
(***************************************************************************)
\* how one pass of the chunk loop may go: convert_pdf_chunk returned the
\* chunk file and it was read, convert_pdf_chunk returned None, or
\* Document(chunk_docx) raised on the file it returned
SeqChunkOutcomes == {"ok", "failed", "unreadable"}

\* whether the pass leaves fixed_chunked_convert: "return None" in the else
\* branch, or the except handler of the function
ChunkLoopEndsMutant(outcome) == FALSE
ChunkLoopEnds(outcome) == outcome # "ok"

\* chunk_docx_paths: the chunk numbers of the passes that appended a file
RECURSIVE ChunkDocxPaths(_, _)
ChunkDocxPaths(chunks, converted) ==
    IF converted = <<>> THEN <<>>
    ELSE LET n == Len(converted)
             before == ChunkDocxPaths(chunks, SubSeq(converted, 1, n - 1))
         IN  IF converted[n] = "failed" THEN before
             ELSE Append(before, chunks[n].chunk_number)

SeqIdle ==
    /\ sq_pc = "idle" /\ sq_chunks = <<>> /\ sq_converted = <<>>
    /\ sq_merged = FALSE /\ sq_ret = "pending" /\ sq_excel = "not_run"

\* fixed_chunked_convert has counted the pages of a PDF that has no DOCX yet
SeqInit ==
    /\ sq_pc = "chunks"
    /\ \E total \in 0..MaxPages, size \in 1..MaxChunkSize :
         sq_chunks = SequentialChunks(total, size).chunks
    /\ sq_converted = <<>>
    /\ sq_merged = FALSE /\ sq_ret = "pending" /\ sq_excel = "not_run"

\* one pass of "for chunk_start in range(0, total_pages, self.chunk_size)"
SeqConvertChunk ==
    /\ sq_pc = "chunks"
    /\ Len(sq_converted) < Len(sq_chunks)
    /\ \E outcome \in SeqChunkOutcomes :
         /\ sq_converted' = Append(sq_converted, outcome)
         /\ IF ChunkLoopEnds(outcome)
            THEN sq_ret' = "none" /\ sq_pc' = "returned"
            ELSE sq_ret' = sq_ret /\ sq_pc' = sq_pc
    /\ UNCHANGED <<sq_chunks, sq_merged, sq_excel>>

\* after the loop: fixed_combine_chunks(chunk_docx_paths, docx_path); it
\* returns None for an empty list, and an exception leaving it makes
\* fixed_chunked_convert return None
SeqCombine ==
    /\ sq_pc = "chunks"
    /\ Len(sq_converted) = Len(sq_chunks)
    /\ sq_merged' = TRUE
    /\ \E merge_raised \in BOOLEAN :
         sq_ret' = IF ChunkDocxPaths(sq_chunks, sq_converted) = <<>> \/ merge_raised
                   THEN "none" ELSE "path"
    /\ sq_pc' = "returned"
    /\ UNCHANGED <<sq_chunks, sq_converted, sq_excel>>

\* process_all_files: "if docx_path: self.convert_docx_to_excel(docx_path, ...)"
SeqExtract ==
    /\ sq_pc = "returned"
    /\ IF sq_ret = "path"
       THEN \E outcome \in {"saved", "no_tables", "failed"} : sq_excel' = outcome
       ELSE sq_excel' = sq_excel
    /\ sq_pc' = "done"
    /\ UNCHANGED <<sq_chunks, sq_converted, sq_merged, sq_ret>>

(***************************************************************************)
(* The selective page converter (tittle3.py): page workers, the grouping   *)
(* and sorting of their results, combine_pages and the subtitle map of     *)
(* convert_docx_to_excel.                                                  *)
(***************************************************************************)
PagePdfNames == {"a", "b"}

\* PageJob: the subtitle is the one found on that page of that PDF
PageJob(pdf_name, page_number) ==
    [pdf_name |-> pdf_name, page_number |-> page_number,
     subtitle |-> <<"subtitle", pdf_name, page_number>>]

AllPageJobs == {PageJob(n, p) : n \in PagePdfNames, p \in 0..(MaxSelPages - 1)}

\* the tables of the page file a worker wrote, each tagged with its origin
PageFileTables(job, table_count) ==
    [k \in 1..table_count |->
        [pdf_name |-> job.pdf_name, page_number |-> job.page_number, k |-> k]]

\* the dictionary convert_page_worker returns
convert_page_worker(job, raised, table_count) ==
    IF raised
    THEN [pdf_name |-> job.pdf_name, page_number |-> job.page_number,
          success |-> FALSE]
    ELSE [pdf_name |-> job.pdf_name, page_number |-> job.page_number,
          page_path |-> PageFileTables(job, table_count),
          subtitle |-> job.subtitle, table_count |-> table_count,
          success |-> TRUE]

\* pdf_results[pdf_name]: the successful results of one PDF, in list order
RECURSIVE PdfGroup(_, _)
PdfGroup(results, pdf_name) ==
    IF results = <<>> THEN <<>>
    ELSE LET r == Head(results)
             rest == PdfGroup(Tail(results), pdf_name)
         IN  IF r.success /\ r.pdf_name = pdf_name THEN <<r>> \o rest ELSE rest

\* the keys of pdf_results in insertion order
RECURSIVE PdfKeys(_)
PdfKeys(results) ==
    IF results = <<>> THEN <<>>
    ELSE LET n == Len(results)
             before == PdfKeys(SubSeq(results, 1, n - 1))
             r == results[n]
         IN  IF r.success /\ ~(\E i \in DOMAIN before : before[i] = r.pdf_name)
             THEN Append(before, r.pdf_name) ELSE before

\* results.sort(key=lambda x: x['page_number']): a stable sort
RECURSIVE SortByPageNumber(_)
SortByPageNumber(results) ==
    IF results = <<>> THEN <<>>
    ELSE LET n == Len(results)
             before == SortByPageNumber(SubSeq(results, 1, n - 1))
             r == results[n]
             keep == Cardinality({i \in DOMAIN before :
                                     before[i].page_number <= r.page_number})
         IN  SubSeq(before, 1, keep) \o <<r>> \o SubSeq(before, keep + 1, n - 1)

\* page_paths = [Path(r['page_path']) for r in results]
PagePaths(results) == [i \in DOMAIN results |-> results[i].page_path]

\* combine_pages: the first page file is the base, the body elements of
\* each later one are appended to it in list order
RECURSIVE CombinedTables(_)
CombinedTables(page_paths) ==
    IF page_paths = <<>> THEN <<>>
    ELSE Head(page_paths) \o CombinedTables(Tail(page_paths))

\* table_to_subtitle_map: current_table_index runs over the tables of each
\* result in turn
RECURSIVE SubtitlesInOrder(_)
SubtitlesInOrder(results) ==
    IF results = <<>> THEN <<>>
    ELSE [k \in 1..Head(results).table_count |-> Head(results).subtitle]
         \o SubtitlesInOrder(Tail(results))

SubtitleNotFound == "Subtitle Not Found"

\* a map that takes four tables for every page, as page_number_guess does
TableToSubtitleMapMutant(results, i) ==
    IF (i \div TablesPerPage) + 1 \in DOMAIN results
    THEN results[(i \div TablesPerPage) + 1].subtitle
    ELSE SubtitleNotFound

\* table_to_subtitle_map.get(i, "Subtitle Not Found"), i counted from 0
TableToSubtitleMap(results, i) ==
    IF i + 1 \in DOMAIN SubtitlesInOrder(results)
    THEN SubtitlesInOrder(results)[i + 1]
    ELSE SubtitleNotFound

\* the data sheets convert_docx_to_excel creates from the combined document
DataSheets(doc_tables, results) ==
    [s \in DOMAIN doc_tables |->
        [origin |-> doc_tables[s],
         subtitle |-> TableToSubtitleMap(results, s - 1)]]

PagesIdle ==
    /\ pg_pc = "idle" /\ pg_jobs = {} /\ pg_results = <<>>
    /\ pg_queue = <<>> /\ pg_workbooks = <<>>

\* all_page_jobs has been submitted to the pool
PagesInit ==
    /\ pg_pc = "pool"
    /\ pg_jobs \in {js \in SUBSET AllPageJobs :
                        Cardinality(js) \in 1..MaxPageJobs}
    /\ pg_results = <<>>
    /\ pg_queue = <<>>
    /\ pg_workbooks = [n \in PagePdfNames |-> <<>>]

\* as_completed yields the future of some job: its result is appended
PageFutureCompletes ==
    /\ pg_pc = "pool"
    /\ \E job \in pg_jobs, raised \in BOOLEAN, table_count \in 0..MaxPageTables :
         /\ pg_jobs' = pg_jobs \ {job}
         /\ pg_results' = Append(pg_results,
                                 convert_page_worker(job, raised, table_count))
    /\ UNCHANGED <<pg_pc, pg_queue, pg_workbooks>>

\* the pool is closed and the results are grouped by PDF
GroupResultsByPdf ==
    /\ pg_pc = "pool"
    /\ pg_jobs = {}
    /\ pg_queue' = PdfKeys(pg_results)
    /\ pg_pc' = IF PdfKeys(pg_results) = <<>> THEN "done" ELSE "combine"
    /\ UNCHANGED <<pg_jobs, pg_results, pg_workbooks>>

\* one pass of "for pdf_name, results in pdf_results.items()"
CombineAndConvertPdf ==
    /\ pg_pc = "combine"
    /\ LET pdf_name == Head(pg_queue)
           results == SortByPageNumber(PdfGroup(pg_results, pdf_name))
           doc_tables == CombinedTables(PagePaths(results))
       IN  \E combined, extracted \in BOOLEAN :
             pg_workbooks' =
                 IF combined /\ extracted /\ doc_tables # <<>>
                 THEN [pg_workbooks EXCEPT ![pdf_name] = DataSheets(doc_tables, results)]
                 ELSE pg_workbooks
    /\ pg_queue' = Tail(pg_queue)
    /\ pg_pc' = IF Tail(pg_queue) = <<>> THEN "done" ELSE "combine"
    /\ UNCHANGED <<pg_jobs, pg_results>>

(***************************************************************************)
(* process_single_file of the parser over a workbook of the selective      *)
(* converter: the sheets it selects by name, and the data points the two   *)
(* parse functions make of the data rows.                                  *)
(***************************************************************************)
\* self.main_summary_categories, self.brokerage_categories and
\* self.subcategories, in insertion order
main_summary_categories ==
    <<[jp |-> "<u81ea><u5df1><u53d6><u5f15><u8a08>", en |-> "PROPRIETARY"],
      [jp |-> "<u59d4><u8a17><u53d6><u5f15><u8a08>", en |-> "BROKERAGE"],
      [jp |-> "<u81ea><u5df1><u59d4><u8a17><u5408><u8a08>", en |-> "TOTAL"]>>

brokerage_categories ==
    <<[jp |-> "<u6cd5><u4eba><u8a08>", en |-> "INSTITUTIONS"],
      [jp |-> "<u500b><u4eba><u8a08>", en |-> "INDIVIDUALS"],
      [jp |-> "<u6d77><u5916><u6295><u8cc7><u5bb6><u8a08>", en |-> "FOREIGNERS"],
      [jp |-> "<u8a3c><u5238><u4f1a><u793e>", en |-> "SECURITIES_COS"]>>

subcategories ==
    <<[jp |-> "<u58f2><u308a>", en |-> "SALES"],
      [jp |-> "<u8cb7><u3044>", en |-> "PURCHASES"]>>

\* "for jp, en in mapping.items(): if jp in text: ... break"
RECURSIVE FirstMatch(_, _)
FirstMatch(mapping, text) ==
    IF mapping = <<>> THEN None
    ELSE IF Contains(text, Head(mapping).jp) THEN Head(mapping).en
    ELSE FirstMatch(Tail(mapping), text)

\* a cell without a value
NoneCell == <<None>>

RowCells == 8          \* "if len(row) < 8: continue"

\* the characters of a cell value as one string
RECURSIVE Text(_)
Text(chars) == IF chars = <<>> THEN "" ELSE Head(chars) \o Text(Tail(chars))

\* the data points one row gives; cells is len(row), value and balance are
\* row[5] and row[7]
ParseRow(section, categories, row, instrument_code, date_code) ==
    LET category_full == StripText(row.category_full)
        subcategory == StripText(row.subcategory)
        category == FirstMatch(categories, category_full)
        subcat == FirstMatch(subcategories, subcategory)
        value_str == handle_negative_values(row.value)
        balance_str == handle_negative_values(row.balance)
        Point(kind, text) ==
            [code |-> SeriesCode(section, instrument_code, category, subcat, kind),
             date |-> date_code, value |-> Text(text)]
    IN  IF \/ row.cells < RowCells
           \/ category_full = "" \/ subcategory = ""
           \/ Contains(subcategory, "<u5408><u8a08>")
           \/ category = None
           \/ subcat = None
        THEN <<>>
        ELSE (IF row.value # NoneCell /\ value_str # <<>>
              THEN <<Point("VALUE", value_str)>> ELSE <<>>)
             \o (IF row.balance # NoneCell /\ balance_str # <<>>
                 THEN <<Point("BALANCE", balance_str)>> ELSE <<>>)

RECURSIVE ParseRows(_, _, _, _, _)
ParseRows(section, categories, data_rows, instrument_code, date_code) ==
    IF data_rows = <<>> THEN <<>>
    ELSE ParseRow(section, categories, Head(data_rows), instrument_code, date_code)
         \o ParseRows(section, categories, Tail(data_rows), instrument_code, date_code)

parse_main_summary_table(data_rows, instrument_code, date_code) ==
    ParseRows("TOTAL_PROPRIETARY_BROKERAGE", main_summary_categories,
              data_rows, instrument_code, date_code)

parse_brokerage_breakdown_tableMutant(data_rows, instrument_code, date_code) ==
    ParseRows("BROKERAGE_BREAKDOWN", main_summary_categories,
              data_rows, instrument_code, date_code)

parse_brokerage_breakdown_table(data_rows, instrument_code, date_code) ==
    ParseRows("BROKERAGE_BREAKDOWN", brokerage_categories,
              data_rows, instrument_code, date_code)

\* the table type process_single_file gives a sheet name
table_typeMutant(sheet_name) ==
    IF sheet_name = "Summary" THEN "skipped"
    ELSE IF Contains(sheet_name, "Table") THEN "main_summary"
    ELSE "skipped"

table_type(sheet_name) ==
    IF sheet_name = "Summary" THEN "skipped"
    ELSE IF Contains(sheet_name, "Table1_Main_Summary") THEN "main_summary"
    ELSE IF Contains(sheet_name, "Table2_Brokerage_Bre") THEN "brokerage_breakdown"
    ELSE "skipped"

\* wb.sheetnames of a workbook convert_docx_to_excel saved for a document of
\* total_tables tables: the Summary sheet, then one sheet for each table
WorkbookSheetNames(total_tables) ==
    <<"Summary">> \o
    [s \in 1..total_tables |->
        SheetName(PageNumber(s - 1), TableName(s - 1))]

\* first and second cell of a data row
CategoryTexts ==
    {"<u81ea><u5df1><u53d6><u5f15><u8a08>" \o " Proprietary", "<u59d4><u8a17><u53d6><u5f15><u8a08>", " " \o "<u81ea><u5df1><u59d4><u8a17><u5408><u8a08>" \o " Total",
     "<u6cd5><u4eba><u8a08>" \o " Institutions", "<u500b><u4eba><u8a08>", "<u6d77><u5916><u6295><u8cc7><u5bb6><u8a08>" \o " Foreigners", "<u8a3c><u5238><u4f1a><u793e>",
     "<u6295><u8cc7><u4fe1><u8a17>", ""}

SubcategoryTexts == {"<u58f2><u308a>" \o " Sales", " " \o "<u8cb7><u3044>", "<u5408><u8a08>" \o " Total", ""}

\* row[5] and row[7] of a data row
ValuePairs ==
    {<<<<"7">>, <<Marker, "7">>>>, <<NoneCell, <<"-">>>>}

DataRowChoices ==
    {[cells |-> n, category_full |-> c, subcategory |-> s,
      value |-> p[1], balance |-> p[2]] :
        n \in {RowCells - 1, RowCells}, c \in CategoryTexts,
        s \in SubcategoryTexts, p \in ValuePairs}

\* the rows the parse loop is run on: a row of too few cells is dropped
\* whatever it holds, so one such row stands for all of them
ParsedRowChoices ==
    {row \in DataRowChoices :
        row.cells = RowCells
        \/ (row.category_full = "<u59d4><u8a17><u53d6><u5f15><u8a08>" /\ row.subcategory = "<u58f2><u308a>" \o " Sales"
            /\ row.balance = NoneCell)}

\* the subtitle cell of a data sheet: a line for each instrument, and one
\* that names none
SheetSubtitles ==
    {"JGB(10-year) Futures", "  mini-10-year JGB Futures (Cash-Settled) ",
     "mini-20-year JGB Futures",
     "TONA3<u304b><u6708><u91d1><u5229><u5148><u7269> 3-Month TONA Futures",
     "Trading by Type of Investors"}

\* the stem of the workbook file
ParseStem == "March Week 1_extracted"

ParseIdle ==
    /\ pa_pc = "idle" /\ pa_sheetnames = <<>> /\ pa_filled = 0
    /\ pa_subtitle = "" /\ pa_row = <<>> /\ pa_types = <<>>
    /\ pa_results = <<>> /\ pa_out = NoOutput

\* a workbook of the converter in which one sheet holds a data row
ParseInit ==
    /\ pa_pc = "sheets"
    /\ \E total_tables \in 0..MaxParseTables :
         pa_sheetnames = WorkbookSheetNames(total_tables)
    /\ pa_filled \in DOMAIN pa_sheetnames
    /\ pa_subtitle \in SheetSubtitles
    /\ pa_row \in ParsedRowChoices
    /\ pa_types = <<>>
    /\ pa_results = <<>>
    /\ pa_out = NoOutput

\* one pass of "for sheet_name in wb.sheetnames"
ProcessSheet ==
    /\ pa_pc = "sheets"
    /\ Len(pa_types) < Len(pa_sheetnames)
    /\ LET s == Len(pa_types) + 1
           type == table_type(pa_sheetnames[s])
           data_rows == IF s = pa_filled THEN <<pa_row>> ELSE <<>>
           instrument_code == extract_instrument_from_subtitle(pa_subtitle)
           date_code == extract_date_from_filename(ParseStem)
           results ==
               IF type = "skipped" \/ instrument_code = None THEN <<>>
               ELSE IF type = "main_summary"
               THEN parse_main_summary_table(data_rows, instrument_code, date_code)
               ELSE parse_brokerage_breakdown_table(data_rows, instrument_code, date_code)
       IN  /\ pa_types' = Append(pa_types, type)
           /\ pa_results' = pa_results \o results
    /\ UNCHANGED <<pa_pc, pa_sheetnames, pa_filled, pa_subtitle, pa_row, pa_out>>

\* the file is done: generate_output_file(all_data, ...) when there is data
ParseGenerateOutput ==
    /\ pa_pc = "sheets"
    /\ Len(pa_types) = Len(pa_sheetnames)
    /\ pa_out' = IF pa_results = <<>> THEN pa_out ELSE OutputSheet(pa_results)
    /\ pa_pc' = "done"
    /\ UNCHANGED <<pa_sheetnames, pa_filled, pa_subtitle, pa_row, pa_types, pa_results>>

(***************************************************************************)
(* Specifications                                                          *)
(***************************************************************************)
SplitNext ==
    \/ ParallelSplit /\ UNCHANGED <<negVars, xlVars, poolVars, mergeVars, jgbfVars, sheetVars, fastVars, seqVars, pageVars, parseVars>>
    \/ GlobalSplit /\ UNCHANGED <<negVars, xlVars, poolVars, mergeVars, jgbfVars, sheetVars, fastVars, seqVars, pageVars, parseVars>>
    \/ SequentialSplit /\ UNCHANGED <<negVars, xlVars, poolVars, mergeVars, jgbfVars, sheetVars, fastVars, seqVars, pageVars, parseVars>>

InitSplit == SplitInit /\ NegIdle /\ XlIdle /\ PoolIdle /\ MergeIdle /\ JgbfIdle /\ SheetIdle /\ FastIdle /\ SeqIdle /\ PagesIdle /\ ParseIdle

SpecSplit == InitSplit /\ [][SplitNext]_vars

NegNext == HandleNegativeValues /\ UNCHANGED <<splitVars, xlVars, poolVars, mergeVars, jgbfVars, sheetVars, fastVars, seqVars, pageVars, parseVars>>

InitNeg == NegInit /\ SplitIdle /\ XlIdle /\ PoolIdle /\ MergeIdle /\ JgbfIdle /\ SheetIdle /\ FastIdle /\ SeqIdle /\ PagesIdle /\ ParseIdle

SpecNeg == InitNeg /\ [][NegNext]_vars

XlNext ==
    \/ OpenWorkbook /\ UNCHANGED <<splitVars, negVars, poolVars, mergeVars, jgbfVars, sheetVars, fastVars, seqVars, pageVars, parseVars>>
    \/ ConvertTable /\ UNCHANGED <<splitVars, negVars, poolVars, mergeVars, jgbfVars, sheetVars, fastVars, seqVars, pageVars, parseVars>>
    \/ ConvertTitledTable /\ UNCHANGED <<splitVars, negVars, poolVars, mergeVars, jgbfVars, sheetVars, fastVars, seqVars, pageVars, parseVars>>
    \/ (\E b \in DOMAIN xl_batches : ProcessTableBatch(b)) /\ UNCHANGED <<splitVars, negVars, poolVars, mergeVars, jgbfVars, sheetVars, fastVars, seqVars, pageVars, parseVars>>
    \/ SaveWorkbook /\ UNCHANGED <<splitVars, negVars, poolVars, mergeVars, jgbfVars, sheetVars, fastVars, seqVars, pageVars, parseVars>>

InitExcel == XlInit /\ SplitIdle /\ NegIdle /\ PoolIdle /\ MergeIdle /\ JgbfIdle /\ SheetIdle /\ FastIdle /\ SeqIdle /\ PagesIdle /\ ParseIdle

SpecExcel == InitExcel /\ [][XlNext]_vars

Next ==
    \/ ParallelChunkedConvert /\ UNCHANGED <<splitVars, negVars, xlVars, mergeVars, jgbfVars, sheetVars, fastVars, seqVars, pageVars, parseVars>>
    \/ GlobalCreateChunks /\ UNCHANGED <<splitVars, negVars, xlVars, mergeVars, jgbfVars, sheetVars, fastVars, seqVars, pageVars, parseVars>>
    \/ GlobalSubmit /\ UNCHANGED <<splitVars, negVars, xlVars, mergeVars, jgbfVars, sheetVars, fastVars, seqVars, pageVars, parseVars>>
    \/ (\E j \in DOMAIN jobs : CompleteChunk(j)) /\ UNCHANGED <<splitVars, negVars, xlVars, mergeVars, jgbfVars, sheetVars, fastVars, seqVars, pageVars, parseVars>>
    \/ ParallelCombine /\ UNCHANGED <<splitVars, negVars, xlVars, mergeVars, jgbfVars, sheetVars, fastVars, seqVars, pageVars, parseVars>>
    \/ ParallelExtract /\ UNCHANGED <<splitVars, negVars, xlVars, mergeVars, jgbfVars, sheetVars, fastVars, seqVars, pageVars, parseVars>>
    \/ GlobalGroup /\ UNCHANGED <<splitVars, negVars, xlVars, mergeVars, jgbfVars, sheetVars, fastVars, seqVars, pageVars, parseVars>>
    \/ GlobalCombine /\ UNCHANGED <<splitVars, negVars, xlVars, mergeVars, jgbfVars, sheetVars, fastVars, seqVars, pageVars, parseVars>>
    \/ GlobalExtract /\ UNCHANGED <<splitVars, negVars, xlVars, mergeVars, jgbfVars, sheetVars, fastVars, seqVars, pageVars, parseVars>>
    \/ ProcessDocxFiles /\ UNCHANGED <<splitVars, negVars, xlVars, mergeVars, jgbfVars, sheetVars, fastVars, seqVars, pageVars, parseVars>>

Init == PoolInit /\ SplitIdle /\ NegIdle /\ XlIdle /\ MergeIdle /\ JgbfIdle /\ SheetIdle /\ FastIdle /\ SeqIdle /\ PagesIdle /\ ParseIdle

Spec == Init /\ [][Next]_vars

\* a call of a chunk worker returns or raises
ChunkReturns ==
    /\ \E j \in DOMAIN jobs : CompleteChunk(j)
    /\ UNCHANGED <<splitVars, negVars, xlVars, mergeVars, jgbfVars, sheetVars, fastVars,
                   seqVars, pageVars, parseVars>>

\* the run when every call of a chunk worker that a pool process has taken
\* returns or raises
SpecLive == Init /\ [][Next]_vars /\ WF_vars(ChunkReturns)

MergeNext ==
    \/ FixedCombineChunks /\ UNCHANGED <<splitVars, negVars, xlVars, poolVars, jgbfVars, sheetVars, fastVars, seqVars, pageVars, parseVars>>
    \/ AlternativeCombineChunks /\ UNCHANGED <<splitVars, negVars, xlVars, poolVars, jgbfVars, sheetVars, fastVars, seqVars, pageVars, parseVars>>
    \/ LastResortCopy /\ UNCHANGED <<splitVars, negVars, xlVars, poolVars, jgbfVars, sheetVars, fastVars, seqVars, pageVars, parseVars>>

InitMerge == MergeInit /\ SplitIdle /\ NegIdle /\ XlIdle /\ PoolIdle /\ JgbfIdle /\ SheetIdle /\ FastIdle /\ SeqIdle /\ PagesIdle /\ ParseIdle

SpecMerge == InitMerge /\ [][MergeNext]_vars

JgbfNext ==
    \/ ProcessSingleFile /\ UNCHANGED <<splitVars, negVars, xlVars, poolVars, mergeVars, sheetVars, fastVars, seqVars, pageVars, parseVars>>
    \/ GenerateOutputFile /\ UNCHANGED <<splitVars, negVars, xlVars, poolVars, mergeVars, sheetVars, fastVars, seqVars, pageVars, parseVars>>

InitJgbf == JgbfInit /\ SplitIdle /\ NegIdle /\ XlIdle /\ PoolIdle /\ MergeIdle /\ SheetIdle /\ FastIdle /\ SeqIdle /\ PagesIdle /\ ParseIdle

SpecJgbf == InitJgbf /\ [][JgbfNext]_vars

SheetNext ==
    \/ GetRelevantPagesAndSubtitles /\ UNCHANGED <<splitVars, negVars, xlVars, poolVars, mergeVars, jgbfVars, fastVars, seqVars, pageVars, parseVars>>
    \/ CopyTableToSheetWithEnhancedTitles /\ UNCHANGED <<splitVars, negVars, xlVars, poolVars, mergeVars, jgbfVars, fastVars, seqVars, pageVars, parseVars>>
    \/ ReadExcelSheet /\ UNCHANGED <<splitVars, negVars, xlVars, poolVars, mergeVars, jgbfVars, fastVars, seqVars, pageVars, parseVars>>
    \/ ExtractInstrument /\ UNCHANGED <<splitVars, negVars, xlVars, poolVars, mergeVars, jgbfVars, fastVars, seqVars, pageVars, parseVars>>

InitSheet == SheetInit /\ SplitIdle /\ NegIdle /\ XlIdle /\ PoolIdle /\ MergeIdle /\ JgbfIdle /\ FastIdle /\ SeqIdle /\ PagesIdle /\ ParseIdle

SpecSheet == InitSheet /\ [][SheetNext]_vars

FastNext ==
    \/ FastConvertPdf /\ UNCHANGED <<splitVars, negVars, xlVars, poolVars, mergeVars, jgbfVars, sheetVars, seqVars, pageVars, parseVars>>
    \/ FastConvertDocxToExcel /\ UNCHANGED <<splitVars, negVars, xlVars, poolVars, mergeVars, jgbfVars, sheetVars, seqVars, pageVars, parseVars>>
    \/ FastProcessDocxFiles /\ UNCHANGED <<splitVars, negVars, xlVars, poolVars, mergeVars, jgbfVars, sheetVars, seqVars, pageVars, parseVars>>

InitFast == FastInit /\ SplitIdle /\ NegIdle /\ XlIdle /\ PoolIdle /\ MergeIdle /\ JgbfIdle /\ SheetIdle /\ SeqIdle /\ PagesIdle /\ ParseIdle

SpecFast == InitFast /\ [][FastNext]_vars

SeqNext ==
    \/ SeqConvertChunk /\ UNCHANGED <<splitVars, negVars, xlVars, poolVars, mergeVars, jgbfVars, sheetVars, fastVars, pageVars, parseVars>>
    \/ SeqCombine /\ UNCHANGED <<splitVars, negVars, xlVars, poolVars, mergeVars, jgbfVars, sheetVars, fastVars, pageVars, parseVars>>
    \/ SeqExtract /\ UNCHANGED <<splitVars, negVars, xlVars, poolVars, mergeVars, jgbfVars, sheetVars, fastVars, pageVars, parseVars>>

InitSeq == SeqInit /\ SplitIdle /\ NegIdle /\ XlIdle /\ PoolIdle /\ MergeIdle /\ JgbfIdle /\ SheetIdle /\ FastIdle /\ PagesIdle /\ ParseIdle

SpecSeq == InitSeq /\ [][SeqNext]_vars

PagesNext ==
    \/ PageFutureCompletes /\ UNCHANGED <<splitVars, negVars, xlVars, poolVars, mergeVars, jgbfVars, sheetVars, fastVars, seqVars, parseVars>>
    \/ GroupResultsByPdf /\ UNCHANGED <<splitVars, negVars, xlVars, poolVars, mergeVars, jgbfVars, sheetVars, fastVars, seqVars, parseVars>>
    \/ CombineAndConvertPdf /\ UNCHANGED <<splitVars, negVars, xlVars, poolVars, mergeVars, jgbfVars, sheetVars, fastVars, seqVars, parseVars>>

InitPages == PagesInit /\ SplitIdle /\ NegIdle /\ XlIdle /\ PoolIdle /\ MergeIdle /\ JgbfIdle /\ SheetIdle /\ FastIdle /\ SeqIdle /\ ParseIdle

SpecPages == InitPages /\ [][PagesNext]_vars

ParseNext ==
    \/ ProcessSheet /\ UNCHANGED <<splitVars, negVars, xlVars, poolVars, mergeVars, jgbfVars, sheetVars, fastVars, seqVars, pageVars>>
    \/ ParseGenerateOutput /\ UNCHANGED <<splitVars, negVars, xlVars, poolVars, mergeVars, jgbfVars, sheetVars, fastVars, seqVars, pageVars>>

InitParse == ParseInit /\ SplitIdle /\ NegIdle /\ XlIdle /\ PoolIdle /\ MergeIdle /\ JgbfIdle /\ SheetIdle /\ FastIdle /\ SeqIdle /\ PagesIdle

SpecParse == InitParse /\ [][ParseNext]_vars

(***************************************************************************)
(* C1: chunk intervals tile [0, total_pages)                               *)
(***************************************************************************)
\* the pages of [0, total) that chunk c covers
Covers(c, p) == c.start_page <= p /\ p < c.end_page

Tiles(chunks, total) ==
    /\ \A p \in 0..(total - 1) :
          Cardinality({i \in DOMAIN chunks : Covers(chunks[i], p)}) = 1
    /\ \A i \in DOMAIN chunks :
          /\ 0 <= chunks[i].start_page
          /\ chunks[i].start_page < chunks[i].end_page
          /\ chunks[i].end_page <= total
    /\ chunks # <<>> => chunks[1].start_page = 0 /\ chunks[Len(chunks)].end_page = total
    /\ \A i \in 1..(Len(chunks) - 1) : chunks[i].end_page = chunks[i + 1].start_page

\* C1 as stated: for any total page count and any chunk size, the chunk
\* intervals built by each of the three splitting loops tile [0, total_pages)
\* exactly (start at 0, contiguous, disjoint, union [0, total_pages), last
\* end not beyond total_pages).
C1_AnyChunkSize ==
    split_conv # "none" => ~split_raised /\ Tiles(chunk_specs, total_pages)

\* C1 amended: for any total page count and any chunk size >= 1, the chunk
\* intervals built by each of the three splitting loops tile [0, total_pages)
\* exactly; for a chunk size of 0 the loop raises ValueError and for a
\* negative chunk size it builds no chunk at all.
C1_PositiveChunkSizeTiles ==
    split_conv # "none" =>
        /\ chunk_size >= 1 => ~split_raised /\ Tiles(chunk_specs, total_pages)
        /\ chunk_size = 0 => split_raised
        /\ chunk_size < 0 => ~split_raised /\ chunk_specs = <<>>

\* a split into several chunks whose last chunk is shorter than chunk_size
C1_Witness ==
    /\ split_conv = "global"
    /\ total_pages = 7 /\ chunk_size = 3
    /\ Len(chunk_specs) = 3
    /\ chunk_specs[3].start_page = 6 /\ chunk_specs[3].end_page = 7

(***************************************************************************)
(* C10: handle_negative_values                                             *)
(***************************************************************************)
IsBlank(s, from, to) == \A i \in from..to : s[i] = " "

\* value without its leading and trailing blanks, stated without recursion
Core(value) ==
    LET lead == CHOOSE l \in 0..Len(value) :
                    /\ IsBlank(value, 1, l)
                    /\ l < Len(value) => value[l + 1] # " "
        rest == SubSeq(value, lead + 1, Len(value))
        trail == CHOOSE t \in 0..Len(rest) :
                    /\ IsBlank(rest, Len(rest) - t + 1, Len(rest))
                    /\ t < Len(rest) => rest[Len(rest) - t] # " "
    IN  SubSeq(rest, 1, Len(rest) - trail)

MinusFor(s) == IF s # <<>> /\ s[1] = Marker THEN <<"-">> \o SubSeq(s, 2, Len(s)) ELSE s

\* C10 as stated: a value whose first character is the marker becomes a minus
\* sign followed by the rest of the value, and every other value is returned
\* unchanged.
C10_OthersUnchanged ==
    neg_pc = "done" => neg_result = MinusFor(neg_value)

\* C10 amended: the empty value and the lone dash "-" give the empty string;
\* every other value is first stripped of leading and trailing blanks, and the
\* stripped value is returned with a leading marker replaced by a minus sign,
\* or as it is when it does not start with the marker.
C10_StripThenMinus ==
    neg_pc = "done" =>
        IF neg_value = <<>> \/ neg_value = <<"-">>
        THEN neg_result = <<>>
        ELSE neg_result = MinusFor(Core(neg_value))

\* a marked value with a blank in front of it has been converted
C10_Witness ==
    /\ neg_pc = "done"
    /\ neg_value = <<" ", Marker, "7">>
    /\ neg_result = <<"-", "7">>

(***************************************************************************)
(* C9: table category and page number by position                          *)
(***************************************************************************)
\* the first 20 characters of the four table names, written out
SheetCategory == <<"Table1_Main_Summary", "Table2_Brokerage_Bre",
                   "Table3_Institutions_", "Table4_Financial_Bre">>

\* C9: the sheet made for the table at index i of the document carries
\* category table_names[i % 4] and page number i // 4 + 1, and is named
\* "P<page>_<first 20 characters of the category>" from exactly these two.
C9_CategoryAndPageByIndex ==
    \A k \in DOMAIN xl_sheets :
        LET sheet == xl_sheets[k]
            i == sheet.table
        IN  i # SummaryTable =>
              /\ sheet.table_name = table_names[(i % 4) + 1]
              /\ sheet.page_number = (i \div 4) + 1
              /\ sheet.title = "P" \o ToString((i \div 4) + 1) \o "_"
                                   \o SheetCategory[(i % 4) + 1]

\* the fast converter saved a workbook whose second batch put table 5 on its
\* sheet before the first batch had put table 1 on its own
C9_Witness ==
    /\ xl_pc = "saved" /\ xl_conv = "fast"
    /\ \E j, k \in DOMAIN xl_sheets :
          /\ j < k
          /\ xl_sheets[j].table = 5 /\ xl_sheets[j].title = "P2_Table2_Brokerage_Bre"
          /\ xl_sheets[k].table = 1 /\ xl_sheets[k].title = "P1_Table2_Brokerage_Bre"

(***************************************************************************)
(* Properties of the pool converters (specification Spec)                  *)
(***************************************************************************)
\* jobs whose conversion did not raise and whose result has been collected
GoodJobs(f) == {j \in Collected \ raised_jobs : jobs[j].pdf = f}

\* the successful results of PDF f in the result list
SuccessfulOf(f) ==
    LET OfPdf(r) == r.success /\ r.pdf = f
    IN  SelectSeq(chunk_results, OfPdf)

RECURSIVE SumTableCounts(_)
SumTableCounts(results) ==
    IF results = <<>> THEN 0
    ELSE Head(results).table_count + SumTableCounts(Tail(results))

MergeInvoked(f) ==
    pdf_status[f] \in {"merged", "merge_failed", "no_tables", "excel_saved", "excel_failed"}

ExcelInvoked(f) == pdf_status[f] \in {"no_tables", "excel_saved", "excel_failed"}

\* the numbers typed at the prompts are ones range() and the pool accept
ValidConfiguration == ChunkSizeOf >= 1 /\ MaxWorkers >= 1

\* C2: whatever the completion order of the workers, the chunk files given to
\* combine_chunks for a PDF are chunks of that PDF in strictly ascending chunk
\* number, and the tables of the merged document follow the page order.
C2_MergeListAscending ==
    last_merge.called =>
        /\ \A k \in DOMAIN last_merge.chunk_paths :
               last_merge.chunk_paths[k][1] = last_merge.pdf
        /\ \A k \in 1..(Len(last_merge.chunk_paths) - 1) :
               last_merge.chunk_paths[k][2] < last_merge.chunk_paths[k + 1][2]
        /\ last_merge.ret = "path" =>
               \A k \in 1..(Len(last_merge.doc) - 1) :
                   last_merge.doc[k][2] <= last_merge.doc[k + 1][2]

\* chunk 2 of the first PDF completed first, and the global pool converter
\* still merged chunk 1 before chunk 2
C2_Witness ==
    /\ variant = "global"
    /\ Len(chunk_results) >= 2
    /\ chunk_results[1].success /\ chunk_results[1].chunk_number = 2
    /\ last_merge.called /\ last_merge.ret = "path"
    /\ last_merge.chunk_paths = <<<<1, 1>>, <<1, 2>>>>
    /\ Len(last_merge.doc) = 2

\* C3: whenever combine_chunks returns a path, the merged document holds as
\* many tables as the successful chunks of that PDF hold together.
C3_MergedCountIsSum ==
    (last_merge.called /\ last_merge.ret = "path") =>
        Len(last_merge.doc) = SumTableCounts(SuccessfulOf(last_merge.pdf))

C6_OtherFilesStillProcessed ==
    (ValidConfiguration /\ pc \in {"done", "crashed"}) =>
        /\ docx_done
        /\ \A f \in Pdfs : pdf_status[f] # "pending"

\* C7: a worker that fails neither blocks nor cancels the others: while
\* futures are outstanding some job is running; once the pool is closed every
\* submitted job has exactly one result in the list; and the result of a job
\* whose conversion did not raise is a success with its chunk file.
PoolClosed ==
    \/ pc \in {"merge", "excel", "done"}
    \/ variant = "parallel" /\ pc = "pdf" /\ jobs # <<>>

C7_SiblingsStillCollected ==
    /\ (pc = "pool" /\ Collected # DOMAIN jobs) => RunningJobs # {}
    /\ PoolClosed =>
           \A j \in DOMAIN jobs :
               Cardinality({k \in DOMAIN chunk_results : chunk_results[k].job = j}) = 1
    /\ \A k \in DOMAIN chunk_results :
           chunk_results[k].job \notin raised_jobs
               => /\ chunk_results[k].success
                  /\ chunk_results[k].chunk_path = ChunkPath(jobs[chunk_results[k].job])

\* the first future to complete failed; two siblings, one of another PDF,
\* completed after it and their successes are in the list
C7_Witness ==
    /\ variant = "global"
    /\ pc = "merge"
    /\ Len(chunk_results) = 3
    /\ ~chunk_results[1].success
    /\ chunk_results[2].success /\ chunk_results[3].success
    /\ chunk_results[2].pdf # chunk_results[3].pdf

\* C8: process_all_files never ends with an exception, whatever integers
\* were typed for the chunk size and the worker count and whatever the
\* conversion, merge and extraction steps did.
C8_ProcessAllFilesReturns == pc # "crashed"

C12_NoSharedWrites ==
    \A a \in Running : \A b \in Running :
        a # b => BatchWrites(a) \cap BatchWrites(b) = {}

\* C14: for the chunk list of any merge that returned a path, what the caller
\* gets from combine_chunks is the same when the full merge goes through and
\* when the merge falls back to the copy of the first chunk.
C14_DegradedLooksLikeSuccess ==
    (last_merge.called /\ last_merge.ret = "path") =>
        LET f == last_merge.pdf
            docs == ChunkDocs(PdfResults(f, chunk_results))
            degraded == CallerView(f, CombineChunks(docs, "primary", {}))
        IN  /\ \A skip \in SkipSets(Len(Concat(Tail(docs)))) :
                   CallerView(f, CombineChunks(docs, "none", skip)) = degraded
            /\ CallerView(f, last_merge) = degraded
            /\ degraded.returned = DocxPath(f)

\* two chunks with a table each were merged by the fallback: the caller got
\* the path, the file holds the first chunk's table only
C14_Witness ==
    /\ last_merge.called /\ last_merge.ret = "path"
    /\ last_merge.via = "fallback"
    /\ Len(last_merge.chunk_paths) = 2
    /\ Len(last_merge.doc) = 1
    /\ Len(PrimaryMerge(ChunkDocs(PdfResults(last_merge.pdf, chunk_results)), {})) = 2

\* C15: in the global pool, whatever the order in which the chunks of the
\* PDFs complete, a chunk file is in the list merged for a PDF exactly when it
\* is the file of a chunk of that PDF whose conversion succeeded, and it is
\* there once.
C15_OnlyOwnSuccessfulChunksMerged ==
    (variant = "global" /\ last_merge.called) =>
        /\ \A j \in DOMAIN jobs :
               (\E k \in DOMAIN last_merge.chunk_paths :
                      last_merge.chunk_paths[k] = ChunkPath(jobs[j]))
                   <=> (/\ jobs[j].pdf = last_merge.pdf
                        /\ j \in Collected
                        /\ j \notin raised_jobs)
        /\ \A k \in DOMAIN last_merge.chunk_paths :
               /\ \E j \in DOMAIN jobs : last_merge.chunk_paths[k] = ChunkPath(jobs[j])
               /\ \A i \in DOMAIN last_merge.chunk_paths :
                      last_merge.chunk_paths[i] = last_merge.chunk_paths[k] => i = k

\* the chunks of the two PDFs completed interleaved (second PDF, first PDF,
\* second PDF), and the list merged for the second PDF is its two chunks
C15_Witness ==
    /\ variant = "global"
    /\ Len(chunk_results) = 3
    /\ \A k \in 1..3 : chunk_results[k].success
    /\ chunk_results[1].pdf = 2 /\ chunk_results[2].pdf = 1 /\ chunk_results[3].pdf = 2
    /\ last_merge.called /\ last_merge.pdf = 2
    /\ last_merge.chunk_paths = <<<<2, 1>>, <<2, 2>>>>

\* C16: a step that invokes combine_chunks is taken only when every job
\* submitted to the pool has its result in the list and no pool process is
\* working on a job; and from the merge on, no job of that pool is running.
MergeStarts ==
    \E f \in Pdfs :
        /\ pdf_status[f] \notin {"merged", "merge_failed"}
        /\ pdf_status'[f] \in {"merged", "merge_failed"}

C16_MergeAfterAllFutures ==
    [][/\ MergeStarts =>
              (/\ jobs # <<>>
               /\ Collected = DOMAIN jobs
               /\ Len(chunk_results) = Len(jobs)
               /\ RunningJobs = {})
       /\ last_merge'.called => (RunningJobs' = {} /\ Collected' = DOMAIN jobs')]_vars

\* three jobs went through a pool of one process one after the other, one of
\* them failed, and the merge was invoked after the third result
C16_Witness ==
    /\ MaxWorkers = 1
    /\ Len(jobs) = 3 /\ Len(chunk_results) = 3
    /\ Cardinality(raised_jobs) = 1
    /\ last_merge.called
    /\ pdf_status[last_merge.pdf] \in {"merged", "merge_failed"}

(***************************************************************************)
(* Properties of the sequential merge (specification SpecMerge)            *)
(***************************************************************************)
MergeEnded == mg_pc = "end" /\ mg_counts # <<>>

FirstChunkFile == File(Head(ChunkFiles(mg_counts)))

\* C5 as stated: for a non-empty chunk list, when the primary merge and the
\* fallback merge have both failed, the first chunk's file is at the output
\* path and the path is returned.
C5_LastResortReturnsPath ==
    (MergeEnded /\ mg_primary \in {"raised", "mismatch"} /\ mg_alternative = "raised")
        => (mg_ret = "path" /\ mg_output = FirstChunkFile)

\* C5, amended: for a non-empty chunk list the fallback merge runs exactly
\* when the primary merge raised or lost tables; the copy of the first chunk
\* is attempted exactly when the fallback merge raised; when that copy
\* succeeds the output is the first chunk's file and the path is returned;
\* when it raises, the fallback merge is run once more if it had been called
\* after a table-count mismatch, and otherwise the exception leaves the merge
\* and no path is returned.
C5_FallbackChain ==
    mg_counts # <<>> =>
        /\ mg_primary \in {"raised", "mismatch"}
               <=> (mg_pc = "alternative" \/ mg_alternative # "not_run")
        /\ mg_alternative = "raised"
               <=> (mg_pc = "last_resort" \/ mg_copy # "not_run")
        /\ mg_copy = "ok" => (mg_ret = "path" /\ mg_output = FirstChunkFile)
        /\ mg_copy = "raised" =>
               \/ mg_pc = "end" /\ mg_ret = "raised"
                     /\ (mg_primary = "raised" \/ mg_calls = 2)
               \/ mg_pc = "alternative" /\ mg_ret = "pending"
                     /\ mg_primary = "mismatch" /\ mg_calls = 1
        /\ mg_calls <= 2
        /\ mg_ret = "path" =>
               (mg_primary = "ok" \/ mg_alternative = "ok" \/ mg_copy = "ok")
        /\ mg_pc = "end" => mg_ret \in {"path", "raised"}

\* two chunks; the primary merge lost a table, the fallback merge raised
\* after its save, and the copy of the first chunk was returned
C5_Witness ==
    /\ Len(mg_counts) = 2 /\ mg_counts[1] = 1 /\ mg_counts[2] = 1
    /\ mg_pc = "end"
    /\ mg_primary = "mismatch"
    /\ mg_alternative = "raised"
    /\ mg_copy = "ok"
    /\ mg_ret = "path"
    /\ mg_output = File(ChunkTables(1, 1))

\* C19: once the merge of a non-empty chunk list has ended,
\* alternative_combine_chunks was not called exactly when the primary merge
\* neither raised nor lost a table; then the path is returned and the file
\* holds as many tables as the chunks hold together. In every other case
\* what is given back is what the latest call of alternative_combine_chunks
\* gave: the path after its merge or its copy of the first chunk, or its
\* exception.
C19_PrimaryOutputOnlyOnMatch ==
    MergeEnded =>
        /\ mg_calls = 0 <=> mg_primary = "ok"
        /\ mg_calls = 0 =>
               /\ mg_ret = "path"
               /\ mg_output = File(Concat(ChunkFiles(mg_counts)))
        /\ mg_calls > 0 =>
               /\ mg_primary \in {"mismatch", "raised"}
               /\ mg_ret = "path" <=> (mg_alternative = "ok" \/ mg_copy = "ok")
               /\ mg_ret = "raised" <=> mg_copy = "raised"
               /\ mg_alternative = "ok" =>
                      \E skip \in SkipSets(Len(Concat(Tail(ChunkFiles(mg_counts))))) :
                          mg_output = File(Head(ChunkFiles(mg_counts))
                              \o Recreate(Keep(Concat(Tail(ChunkFiles(mg_counts))), skip, 1)))

\* two chunks with a table each; the primary merge saved one table only, and
\* the path came from alternative_combine_chunks, which re-created the
\* second chunk's table
C19_Witness ==
    /\ mg_pc = "end"
    /\ mg_counts = <<1, 1>>
    /\ mg_primary = "mismatch"
    /\ mg_calls = 1 /\ mg_alternative = "ok"
    /\ mg_ret = "path"
    /\ Len(mg_output.tables) = 2
    /\ mg_output.tables[2].recreated

(***************************************************************************)
(* Properties of the JGBF parser (specification SpecJgbf)                  *)
(***************************************************************************)
\* the cells of the output sheet at the row of `date` and the column of `code`
OutputCells(date, code) ==
    {jg_out.rows[r].cells[col] :
        r \in {r \in DOMAIN jg_out.rows : jg_out.rows[r].date = date},
        col \in {col \in DOMAIN jg_out.columns : jg_out.columns[col] = code}}

\* the last value extracted for the pair, "" when there is none
Recorded(date, code) ==
    LET hits == {k \in DOMAIN all_data :
                    all_data[k].date = date /\ all_data[k].code = code}
    IN  IF hits = {} THEN ""
        ELSE all_data[CHOOSE k \in hits : \A o \in hits : o <= k].value

\* C13: every observation extracted from any input file is in the output at
\* the cell of its code and its date bucket.
C13_EveryObservationInOutput ==
    jg_out.written =>
        \A k \in DOMAIN all_data :
            OutputCells(all_data[k].date, all_data[k].code) = {all_data[k].value}

\* C20: the sheet written by generate_output_file has one column per template
\* code in template order, one row per distinct date code of the data in
\* ascending order, and each cell holds the value last recorded for its date
\* and code, the empty string when there is none.
C20_TemplateStructure ==
    /\ (jg_pc = "done" /\ all_data # <<>>) => jg_out.written
    /\ jg_out.written =>
         /\ jg_out.columns = get_template_columns
         /\ {jg_out.rows[r].date : r \in DOMAIN jg_out.rows}
                = {all_data[k].date : k \in DOMAIN all_data}
         /\ \A r \in 1..(Len(jg_out.rows) - 1) :
                StrLess(jg_out.rows[r].date, jg_out.rows[r + 1].date)
         /\ \A r \in DOMAIN jg_out.rows :
                /\ Len(jg_out.rows[r].cells) = Len(get_template_columns)
                /\ \A col \in DOMAIN get_template_columns :
                       jg_out.rows[r].cells[col]
                           = Recorded(jg_out.rows[r].date, get_template_columns[col])

\* the data of week 2025-09 were parsed before the data of 2024-01; the sheet
\* has the row of 2024-01 first, and an empty cell where a code has no value
C20_Witness ==
    /\ jg_out.written
    /\ Len(all_data) = 3
    /\ all_data[1].date = "2025-09" /\ all_data[3].date = "2024-01"
    /\ Len(jg_out.rows) = 2
    /\ jg_out.rows[1].date = "2024-01" /\ jg_out.rows[2].date = "2025-09"
    /\ jg_out.rows[1].cells[1] = "3"
    /\ jg_out.rows[1].cells[14] = ""
    /\ jg_out.rows[2].cells[14] = "2"

(***************************************************************************)
(* Properties of the data sheet and its subtitle (specification SpecSheet) *)
(***************************************************************************)
\* C17: every row of the table whose first cell holds text is, as written to
\* the sheet, among the data_rows read_excel_sheet returns for the sheet.
C17_WrittenRowsAreRead ==
    sheet_pc \in {"read", "parsed"} =>
        \A r \in DOMAIN table_rows :
            StripText(table_rows[r][1]) # "" =>
                \E k \in DOMAIN sheet_data.data_rows :
                    sheet_data.data_rows[k] = ws[start_row + r - 1]

\* C18: the code extract_instrument_from_subtitle returns for the subtitle
\* read back from the sheet is the code of the instrument whose section the
\* captured line heads.
C18_SubtitleMapsToOwnCode ==
    sheet_pc = "parsed" =>
        sheet_instrument = page_lines[CapturedLine(page_lines)].names

(***************************************************************************)
(* Properties of the fast converter (specification SpecFast)               *)
(***************************************************************************)
\* C21: for every PDF taken up, the fallback conversion ran exactly when the
\* fast conversion raised; None came back exactly when both raised; after
\* None no extraction is attempted for the PDF, after a path it is; and the
\* loop goes on to the next PDF until all are taken up.
C21_FallbackOnlyAfterFastRaised ==
    /\ \A k \in DOMAIN fa_log :
           /\ fa_log[k].fallback # "not_run" <=> fa_log[k].fast = "raised"
           /\ fa_log[k].docx_path = "none"
                  <=> (fa_log[k].fast = "raised" /\ fa_log[k].fallback = "raised")
           /\ fa_log[k].docx_path = "none" => fa_log[k].excel = "not_run"
           /\ (fa_log[k].docx_path # "none" /\ (k < Len(fa_log) \/ fa_pc # "excel"))
                  => fa_log[k].excel # "not_run"
    /\ (fa_pc = "pdf" /\ Len(fa_log) < fa_n) => ENABLED FastConvertPdf
    /\ fa_pc = "done" => Len(fa_log) = fa_n

\* the first PDF failed in both conversions, the second went through the
\* fallback and was extracted, and the run ended
C21_Witness ==
    /\ fa_pc = "done"
    /\ Len(fa_log) >= 2
    /\ fa_log[1].docx_path = "none" /\ fa_log[1].fallback = "raised"
    /\ fa_log[2].docx_path = "fallback_docx" /\ fa_log[2].excel = "saved"

(***************************************************************************)
(* Properties of the sequential chunk loop (specification SpecSeq)         *)
(***************************************************************************)
\* C22: a pass of the chunk loop in which convert_pdf_chunk failed is the
\* last pass: every pass before it succeeded, None is returned,
\* fixed_combine_chunks is not called and convert_docx_to_excel is not run
\* for the PDF.
C22_FirstFailedChunkEndsConversion ==
    \A k \in DOMAIN sq_converted :
        sq_converted[k] # "ok" =>
            /\ k = Len(sq_converted)
            /\ \A i \in 1..(k - 1) : sq_converted[i] = "ok"
            /\ sq_pc \in {"returned", "done"}
            /\ sq_ret = "none"
            /\ ~sq_merged
            /\ sq_excel = "not_run"

\* the second of three chunks failed: the third was never converted and the
\* run went on without a merge and without an Excel file
C22_Witness ==
    /\ sq_pc = "done"
    /\ Len(sq_chunks) = 3
    /\ sq_converted = <<"ok", "failed">>
    /\ sq_ret = "none" /\ ~sq_merged /\ sq_excel = "not_run"

(***************************************************************************)
(* Properties of the selective page converter (specification SpecPages)    *)
(***************************************************************************)
\* C23: whatever the order in which the page futures completed and however
\* many tables each page file holds, the subtitle written on the sheet of
\* every table of the combined document is the subtitle of the page job the
\* table came from.
C23_SheetSubtitleIsOwnPage ==
    \A n \in DOMAIN pg_workbooks : \A s \in DOMAIN pg_workbooks[n] :
        LET sheet == pg_workbooks[n][s]
        IN  /\ sheet.origin.pdf_name = n
            /\ sheet.subtitle =
                   PageJob(sheet.origin.pdf_name, sheet.origin.page_number).subtitle

\* the later page completed first, the two pages hold different numbers of
\* tables, and the workbook has a sheet for each of the three tables
C23_Witness ==
    /\ pg_pc = "done"
    /\ \E n \in PagePdfNames :
         /\ Len(pg_workbooks[n]) = 3
         /\ pg_workbooks[n][1].origin.page_number = 0
         /\ pg_workbooks[n][2].origin.page_number = 1
         /\ \E i, j \in DOMAIN pg_results :
              /\ i < j
              /\ pg_results[i].success /\ pg_results[j].success
              /\ pg_results[i].pdf_name = n /\ pg_results[j].pdf_name = n
              /\ pg_results[i].page_number = 1 /\ pg_results[j].page_number = 0

(***************************************************************************)
(* Properties of the parse of a workbook (specification SpecParse)         *)
(***************************************************************************)
\* the instrument codes extract_instrument_from_subtitle returns
ReturnedInstruments ==
    {extract_instrument_from_subtitle(line.text) : line \in PageLines} \ {None}

\* the codes of the data points the two parse functions make of any row
EmittableCodes ==
    UNION {{points[k].code : k \in DOMAIN points} :
           points \in {parse_main_summary_table(<<row>>, i, "d") :
                           row \in DataRowChoices, i \in ReturnedInstruments}
                       \cup {parse_brokerage_breakdown_table(<<row>>, i, "d") :
                                 row \in DataRowChoices, i \in ReturnedInstruments}}

TemplateCodes == {get_template_columns[c] : c \in DOMAIN get_template_columns}

\* C24: the codes the parse functions can emit are exactly the codes of the
\* template columns, so every data point extracted from a workbook has a
\* column, and the saved sheet holds its value in the row of its date.
C24_EmittedCodesAreTemplateColumns ==
    /\ EmittableCodes = TemplateCodes
    /\ \A k \in DOMAIN pa_results : pa_results[k].code \in TemplateCodes
    /\ (pa_pc = "done" /\ pa_results # <<>>) =>
          /\ pa_out.written
          /\ \A k \in DOMAIN pa_results :
                \E r \in DOMAIN pa_out.rows, col \in DOMAIN pa_out.columns :
                    /\ pa_out.rows[r].date = pa_results[k].date
                    /\ pa_out.columns[col] = pa_results[k].code
                    /\ pa_out.rows[r].cells[col] = pa_results[k].value

\* a Breakdown sheet with a row of foreigners' purchases gave a value and a
\* balance, and both are in the saved sheet
C24_Witness ==
    /\ pa_pc = "done"
    /\ pa_out.written
    /\ Len(pa_results) = 2
    /\ pa_results[1].code =
          "JGBF.BROKERAGE_BREAKDOWN.MINI20YEARJGBFUTURES.TRADINGVALUE.FOREIGNERS.PURCHASES.VALUE.W"
    /\ pa_results[2].value = "-7"

\* position of the table behind the sheet at index s of wb.sheetnames
SheetPosition(s) == (s - 2) % TablesPerPage

\* C25: the Summary sheet and the sheets of positions 2 and 3 are never
\* parsed, a sheet of position 0 is parsed as a Main Summary table and one
\* of position 1 as a Brokerage Breakdown table, on every page; the names
\* cut to 20 characters differ between any two positions.
C25_SheetNamesSelectTables ==
    /\ \A s \in DOMAIN pa_types :
          pa_types[s] = IF s = 1 THEN "skipped"
                        ELSE IF SheetPosition(s) = 0 THEN "main_summary"
                        ELSE IF SheetPosition(s) = 1 THEN "brokerage_breakdown"
                        ELSE "skipped"
    /\ \A s \in DOMAIN pa_types :
          (s = pa_filled /\ (s = 1 \/ SheetPosition(s) \in {2, 3})) => pa_results = <<>>
    /\ \A s, t \in DOMAIN pa_sheetnames : s # t => pa_sheetnames[s] # pa_sheetnames[t]
    /\ \A a, b \in DOMAIN table_names :
          a # b => SheetName(1, table_names[a]) # SheetName(1, table_names[b])

\* the first table of the second page was parsed as a Main Summary table,
\* and the sheets of the third and fourth table before it were skipped
C25_Witness ==
    /\ pa_pc = "done"
    /\ Len(pa_types) = 6
    /\ pa_sheetnames[6] = "P2_Table1_Main_Summary"
    /\ pa_sheetnames[3] = "P1_Table2_Brokerage_Bre"
    /\ pa_types[6] = "main_summary"
    /\ pa_types[4] = "skipped" /\ pa_types[5] = "skipped"
    /\ pa_filled = 6
    /\ pa_results # <<>>

(***************************************************************************)
(* Termination of the pool (specification SpecLive)                        *)
(***************************************************************************)
\* chunk_results holds one result, success or failure, for every job
OneResultPerJob ==
    /\ Len(chunk_results) = Len(jobs)
    /\ \A j \in DOMAIN jobs :
          Cardinality({k \in DOMAIN chunk_results : chunk_results[k].job = j}) = 1

\* C26: when every chunk call returns or raises, the loop over
\* as_completed of a pool that has been opened comes to its end with every
\* future collected, and the step that closes the pool finds one result,
\* success or failure, for every submitted chunk: nothing ends the
\* collection early.
C26_PoolTerminatesWithAllResults ==
    /\ [][(pc = "pool" /\ pc' # "pool") => OneResultPerJob]_vars
    /\ (pc = "pool") ~> (AllCollected /\ OneResultPerJob)

\* the pool of three chunks was closed with a failed chunk among the results
C26_Witness ==
    /\ pc \notin {"pool", "count", "idle"}
    /\ Len(jobs) = 3
    /\ OneResultPerJob
    /\ raised_jobs # {}
    /\ \E k \in DOMAIN chunk_results : chunk_results[k].success

====
